---- MODULE Spec2Model ----
(***************************************************************************)
(* A model of the rayflex ray/path tracer: the surface intersection        *)
(* kernel, the per-ray colour evaluation (Whitted and path), the pixel     *)
(* sampler and the tile/row scheduler with its progress counter, its       *)
(* statistics and its cancellation flag.                                   *)
(*                                                                         *)
(* Numbers.  The program computes in f32.  The model computes with exact  *)
(* integers and rationals: a hit parameter t is a fraction n/d, a ray has  *)
(* an integer origin and direction over a common denominator, a colour is  *)
(* a fixed-point triple in units of 1/RGBUnit.  The scenes of the model    *)
(* are built from small integers, for which the f32 comparisons of the     *)
(* program and the exact comparisons of the model agree.                   *)
(***************************************************************************)
EXTENDS Integers, Naturals, Sequences, FiniteSets, TLC

(***************************************************************************)
(* Arithmetic helpers                                                      *)
(***************************************************************************)
Abs(a) == IF a < 0 THEN -a ELSE a

Min(a, b) == IF a < b THEN a ELSE b

Max(a, b) == IF a > b THEN a ELSE b

RECURSIVE GCD(_, _)
GCD(a, b) == IF b = 0 THEN a ELSE GCD(b, a % b)

\* division truncating toward zero, as the fixed-point image of an f32 quotient
TDiv(a, b) == IF (a < 0) = (b < 0) THEN Abs(a) \div Abs(b) ELSE -(Abs(a) \div Abs(b))

\* floor of the square root, by bisection on [lo, hi]
RECURSIVE ISqrtIn(_, _, _)
ISqrtIn(n, lo, hi) ==
    IF lo >= hi THEN lo
    ELSE LET mid == (lo + hi + 1) \div 2
         IN  IF mid * mid <= n THEN ISqrtIn(n, mid, hi) ELSE ISqrtIn(n, lo, mid - 1)

ISqrt(n) == ISqrtIn(n, 0, Min(n, 46340))

(***************************************************************************)
(* Rationals n/d with d >= 0; d = 0 with n > 0 stands for Float::MAX.      *)
(***************************************************************************)
Rat(n, d) ==
    LET g == GCD(Abs(n), Abs(d))
        s == IF d < 0 THEN -1 ELSE 1
    IN  IF g = 0 THEN [n |-> 0, d |-> 1] ELSE [n |-> s * (n \div g), d |-> s * (d \div g)]

\* -1, 0 or 1 as a < b, a = b or a > b; by integer parts and reciprocals of
\* the remainders, so that no product of the two fractions is formed
RECURSIVE RCmp(_, _)
RCmp(a, b) ==
    IF a.d = 0 \/ b.d = 0
    THEN IF a.d = 0 /\ b.d = 0 THEN 0 ELSE IF a.d = 0 THEN 1 ELSE -1
    ELSE LET qa == a.n \div a.d
             qb == b.n \div b.d
             ra == a.n - qa * a.d
             rb == b.n - qb * b.d
         IN  IF qa # qb THEN (IF qa < qb THEN -1 ELSE 1)
             ELSE IF ra = 0 \/ rb = 0
                  THEN (IF ra = rb THEN 0 ELSE IF ra = 0 THEN -1 ELSE 1)
                  ELSE RCmp([n |-> b.d, d |-> rb], [n |-> a.d, d |-> ra])

RLt(a, b) == RCmp(a, b) < 0

RLe(a, b) == RCmp(a, b) <= 0

\* vec3.rs: pub const EPSILON: Float = 1e-6
EpsDen == 1000000

EPSILON == [n |-> 1, d |-> EpsDen]

\* render.rs: let mut t = Float::MAX
FloatMax == [n |-> 1, d |-> 0]

ROne == [n |-> 1, d |-> 1]

(***************************************************************************)
(* Vec3 (vec3.rs)                                                          *)
(***************************************************************************)
Vec(x, y, z) == [x |-> x, y |-> y, z |-> z]

VAdd(a, b) == Vec(a.x + b.x, a.y + b.y, a.z + b.z)

VSub(a, b) == Vec(a.x - b.x, a.y - b.y, a.z - b.z)

VScale(a, k) == Vec(a.x * k, a.y * k, a.z * k)

dot(a, b) == a.x * b.x + a.y * b.y + a.z * b.z

cross(a, b) == Vec(a.y * b.z - a.z * b.y, a.z * b.x - a.x * b.z, a.x * b.y - a.y * b.x)

\* a vector of integers reduced by the gcd of its components and of den
VReduce(v, den) ==
    LET g == GCD(GCD(GCD(Abs(v.x), Abs(v.y)), Abs(v.z)), Abs(den))
    IN  IF g = 0 THEN [v |-> v, den |-> 1]
        ELSE [v |-> Vec(v.x \div g, v.y \div g, v.z \div g), den |-> den \div g]


(***************************************************************************)
(* Quantised unit vectors.  normalize() divides by the Euclidean norm,     *)
(* which is irrational in general: the model keeps a unit vector as        *)
(* integers over the denominator NScale (1/NScale plays the part of the    *)
(* f32 rounding unit).  Axis-parallel vectors normalise exactly.           *)
(***************************************************************************)
NScale == 8

\* Vec3::norm, in units of 1/NScale
norm(v) == ISqrt(dot(v, v) * NScale * NScale)

\* v / n for the norm n of v, in units of 1/NScale
VDivNorm(v, n) ==
    VReduce(Vec(TDiv(v.x * NScale * NScale, n), TDiv(v.y * NScale * NScale, n),
                TDiv(v.z * NScale * NScale, n)), NScale)

\* Vec3::normalize: [v, den] with v/den of length 1 (up to 1/NScale)
normalize(v) == VDivNorm(v, norm(v))

(***************************************************************************)
(* Ray (lib.rs): origin orig/od and direction dir/dd.                      *)
(***************************************************************************)
Ray(orig, od, dir, dd) ==
    LET o == VReduce(orig, od)
        d == VReduce(dir, dd)
    IN  [orig |-> o.v, od |-> o.den, dir |-> d.v, dd |-> d.den]

\* ray.orig + ray.dir * t, as [v, den]
PointAt(ray, t) ==
    VReduce(VAdd(VScale(ray.orig, ray.dd * t.d), VScale(ray.dir, t.n * ray.od)),
            ray.od * ray.dd * t.d)

\* Vec3::reflect for a direction dir/dd and a unit normal nv/nd:
\* self - normal * self.dot(normal) * 2.0
reflect(dir, dd, nv, nd) ==
    VReduce(VSub(VScale(dir, nd * nd), VScale(nv, 2 * dot(dir, nv))), dd * nd * nd)

\* Ray::new(point, dir) for a point and a direction given as [v, den]
RayFrom(point, r) == Ray(point.v, point.den, r.v, r.den)

\* Ray::get_reflection
get_reflection(ray, point, normal) ==
    RayFrom(point, reflect(ray.dir, ray.dd, normal.v, normal.den))

(***************************************************************************)
(* RenderStats (lib.rs)                                                    *)
(***************************************************************************)
StatFields ==
    {"num_rays_sampling", "num_rays_sampling_max", "num_rays_reflection",
     "num_rays_reflection_max", "num_intersects_plane", "num_intersects_sphere",
     "num_intersects_triangle", "num_intersects_aabb"}

\* RenderStats::default
ZeroStats == [f \in StatFields |-> 0]

\* RenderStats::add as it would be with one field left out of the sum
RenderStatsAddLossy(self, other) ==
    [f \in StatFields |-> IF f = "num_intersects_plane" THEN self[f] ELSE self[f] + other[f]]

\* RenderStats::add
RenderStatsAdd(self, other) == [f \in StatFields |-> self[f] + other[f]]

StatInc(stats, f) == [stats EXCEPT ![f] = @ + 1]


(***************************************************************************)
(* RGB (color.rs): fixed point, RGBUnit standing for 1.0                   *)
(***************************************************************************)
RGBUnit == 1000

RGB(r, g, b) == [r |-> r, g |-> g, b |-> b]

\* RGB::new
RGBNew == RGB(0, 0, 0)

\* impl Add for RGB
RGBAdd(a, b) == RGB(a.r + b.r, a.g + b.g, a.b + b.b)

\* impl Mul<RGB> for RGB
RGBMul(a, b) == RGB((a.r * b.r) \div RGBUnit, (a.g * b.g) \div RGBUnit, (a.b * b.b) \div RGBUnit)

\* impl Mul<f32> for RGB, the factor k in units of 1/RGBUnit
RGBScale(a, k) == RGB((a.r * k) \div RGBUnit, (a.g * k) \div RGBUnit, (a.b * k) \div RGBUnit)

\* impl Div<f32> for RGB, by a whole number
RGBDiv(a, k) == RGB(a.r \div k, a.g \div k, a.b \div k)

RGBIsZero(a) == a.r = 0 /\ a.g = 0 /\ a.b = 0

(***************************************************************************)
(* Surfaces (three_d.rs).  A plane is [kind, point, normal, material_id],  *)
(* its normal the unit vector v/den as the scene file gives it, a triangle *)
(* [kind, points, material_id]; intercept returns the hit flag with the    *)
(* new tmax, sub-id and stats.                                             *)
(***************************************************************************)
Plane(point, normal, material_id) ==
    [kind |-> "plane", point |-> point, normal |-> normal, points |-> <<>>,
     material_id |-> material_id]

Triangle(p0, p1, p2, material_id) ==
    [kind |-> "triangle", point |-> p0, normal |-> [v |-> Vec(0, 0, 0), den |-> 1],
     points |-> <<p0, p1, p2>>,
     material_id |-> material_id, mesh_id |-> 0]

NoHit(stats, tmax, oid) == [hit |-> FALSE, tmax |-> tmax, oid |-> oid, stats |-> stats]

\* |n/d| < EPSILON for d > 0
LtEps(n, d) == Abs(n) < (d + EpsDen - 1) \div EpsDen

\* Plane::intercept from the hit parameter t0 on, as it would be without
\* the test against tmax
PlaneAcceptNoTmax(st, t0, tmin, tmax, oid) ==
    IF RLe(t0, tmin) THEN NoHit(st, tmax, oid)
    ELSE [hit |-> TRUE, tmax |-> t0, oid |-> oid, stats |-> st]

\* Plane::intercept from the hit parameter t0 on:
\* if t0 <= tmin || t0 >= *tmax { return false }  *tmax = t0;  true
PlaneAccept(st, t0, tmin, tmax, oid) ==
    IF RLe(t0, tmin) \/ ~RLt(t0, tmax) THEN NoHit(st, tmax, oid)
    ELSE [hit |-> TRUE, tmax |-> t0, oid |-> oid, stats |-> st]

\* Plane::intercept: d = ray.dir . normal, t0 = (point - orig) . normal / d
PlaneIntercept(self, stats, ray, tmin, tmax, any, oid) ==
    IF LtEps(dot(ray.dir, self.normal.v), ray.dd * self.normal.den)
    THEN NoHit(StatInc(stats, "num_intersects_plane"), tmax, oid)
    ELSE PlaneAccept(StatInc(stats, "num_intersects_plane"),
                     Rat(dot(VSub(VScale(self.point, ray.od), ray.orig), self.normal.v)
                            * ray.dd,
                         ray.od * dot(ray.dir, self.normal.v)),
                     tmin, tmax, oid)

\* Triangle::intercept from a, u, v, u + v and t on
TriangleAccept(st, an, dd, u, v, upv, t, tmin, tmax, oid) ==
    IF LtEps(an, dd) THEN NoHit(st, tmax, oid)
    ELSE IF u.n < 0 \/ RLt(ROne, u) THEN NoHit(st, tmax, oid)
    ELSE IF v.n < 0 \/ RLt(ROne, upv) THEN NoHit(st, tmax, oid)
    ELSE IF RLt(t, EPSILON) THEN NoHit(st, tmax, oid)
    ELSE IF RLe(t, tmin) \/ ~RLt(t, tmax) THEN NoHit(st, tmax, oid)
    ELSE [hit |-> TRUE, tmax |-> t, oid |-> oid, stats |-> st]

\* Triangle::intercept from h = dir x edge2, s = orig - p0 and q = s x edge1
\* on.  With s = sn/od, h = hn/dd and a = an/dd:
\*   u = (sn.hn)/(od an),  v = (dir.qn)/(od an),  t = (e2.qn) dd/(od an)
TriangleSolve(st, ray, edge1, edge2, hn, sn, qn, tmin, tmax, oid) ==
    TriangleAccept(st, dot(edge1, hn), ray.dd,
                   Rat(dot(sn, hn), ray.od * dot(edge1, hn)),
                   Rat(dot(ray.dir, qn), ray.od * dot(edge1, hn)),
                   Rat(dot(sn, hn) + dot(ray.dir, qn), ray.od * dot(edge1, hn)),
                   Rat(dot(edge2, qn) * ray.dd, ray.od * dot(edge1, hn)),
                   tmin, tmax, oid)

\* Triangle::intercept from the two edges on
TriangleEdges(st, ray, p0, edge1, edge2, tmin, tmax, oid) ==
    TriangleSolve(st, ray, edge1, edge2, cross(ray.dir, edge2),
                  VSub(ray.orig, VScale(p0, ray.od)),
                  cross(VSub(ray.orig, VScale(p0, ray.od)), edge1), tmin, tmax, oid)

\* Triangle::intercept (Moeller-Trumbore)
TriangleIntercept(self, stats, ray, tmin, tmax, any, oid) ==
    TriangleEdges(StatInc(stats, "num_intersects_triangle"), ray, self.points[1],
                  VSub(self.points[2], self.points[1]),
                  VSub(self.points[3], self.points[1]), tmin, tmax, oid)

(***************************************************************************)
(* Sphere (three_d.rs): [kind, center, radius, material_id].  With the ray *)
(* orig/od + t dir/dd the quadratic of Sphere::intercept has               *)
(*   a = A / dd^2, half_b = B / (dd od), c = C / od^2                      *)
(* for the integers A = dir.dir, B = dir.(orig - od center) and            *)
(* C = |orig - od center|^2 - radius^2 od^2, so delta = D / (dd od)^2 with *)
(* D = B^2 - A C, and t = (-B -+ sqrt(D)) dd / (od A).  The square root is *)
(* taken in units of 1/NScale, exact when D is a square.                   *)
(***************************************************************************)
Sphere(center, radius, material_id) ==
    [kind |-> "sphere", center |-> center, radius |-> radius, material_id |-> material_id]

\* the choice among the two roots as it would be without the test against
\* *tmax
SphereFindNoTmax(st, t1, t2, tmin, tmax, oid) ==
    IF RLt(tmin, t1) THEN [hit |-> TRUE, tmax |-> t1, oid |-> oid, stats |-> st]
    ELSE IF RLt(tmin, t2) THEN [hit |-> TRUE, tmax |-> t2, oid |-> oid, stats |-> st]
    ELSE NoHit(st, tmax, oid)

\* t_vals.iter().find(|&&t| t > tmin && t < *tmax), then *tmax = *t_opt
SphereFind(st, t1, t2, tmin, tmax, oid) ==
    IF RLt(tmin, t1) /\ RLt(t1, tmax)
    THEN [hit |-> TRUE, tmax |-> t1, oid |-> oid, stats |-> st]
    ELSE IF RLt(tmin, t2) /\ RLt(t2, tmax)
    THEN [hit |-> TRUE, tmax |-> t2, oid |-> oid, stats |-> st]
    ELSE NoHit(st, tmax, oid)

\* Sphere::intercept from A, B and D on: if delta < 0.0 { return false }
SphereRoots(st, ray, A, B, D, tmin, tmax, oid) ==
    IF D < 0 THEN NoHit(st, tmax, oid)
    ELSE SphereFind(st,
                    Rat((-B * NScale - ISqrt(D * NScale * NScale)) * ray.dd,
                        ray.od * A * NScale),
                    Rat((-B * NScale + ISqrt(D * NScale * NScale)) * ray.dd,
                        ray.od * A * NScale),
                    tmin, tmax, oid)

\* Sphere::intercept from v0 = orig - od center on
SphereSolve(self, st, ray, v0, tmin, tmax, oid) ==
    SphereRoots(st, ray, dot(ray.dir, ray.dir), dot(ray.dir, v0),
                dot(ray.dir, v0) * dot(ray.dir, v0)
                   - dot(ray.dir, ray.dir)
                       * (dot(v0, v0) - self.radius * self.radius * ray.od * ray.od),
                tmin, tmax, oid)

\* Sphere::intercept
SphereIntercept(self, stats, ray, tmin, tmax, any, oid) ==
    SphereSolve(self, StatInc(stats, "num_intersects_sphere"), ray,
                VSub(ray.orig, VScale(self.center, ray.od)), tmin, tmax, oid)

(***************************************************************************)
(* AABB octree (aabb.rs).  A box is [lo, hi, den]: the corners lo/den and  *)
(* hi/den.  The slab test computes with the reciprocals of the ray's       *)
(* direction, which are infinite for a zero component: a slab value is     *)
(* n/d, with d = 0 for +inf (n = 1), -inf (n = -1) and NaN (n = 0).        *)
(***************************************************************************)
\* aabb.rs: const MAX_NUM_TRIANGLES: usize = 200, kept small here so that
\* the meshes of the model are subdivided
MAX_NUM_TRIANGLES == 2

\* aabb.rs: const MAX_DEPTH: u32 = 5, kept small here
MAX_DEPTH == 1

FNaN == [n |-> 0, d |-> 0]

FZero == [n |-> 0, d |-> 1]

IsNaN(a) == a.d = 0 /\ a.n = 0

\* a < b on f64: false when either side is NaN
FLt(a, b) ==
    IF IsNaN(a) \/ IsNaN(b) THEN FALSE
    ELSE IF a.d = 0 /\ a.n < 0 THEN ~(b.d = 0 /\ b.n < 0)
    ELSE IF b.d = 0 /\ b.n < 0 THEN FALSE
    ELSE RLt(a, b)

\* a <= b on f64
FLe(a, b) == ~IsNaN(a) /\ ~IsNaN(b) /\ ~FLt(b, a)

\* f64::min and f64::max: a NaN operand yields the other operand
FMin(a, b) == IF IsNaN(a) THEN b ELSE IF IsNaN(b) THEN a ELSE IF FLt(b, a) THEN b ELSE a

FMax(a, b) == IF IsNaN(a) THEN b ELSE IF IsNaN(b) THEN a ELSE IF FLt(a, b) THEN b ELSE a

\* (num / nden) * inv_dir for inv_dir = 1.0 / (dirc / dd), nden > 0, dd > 0:
\* 1.0 / 0.0 is +inf, x * inf is +-inf and 0.0 * inf is NaN
SlabT(num, nden, dirc, dd) ==
    IF dirc = 0
    THEN (IF num = 0 THEN FNaN ELSE [n |-> IF num > 0 THEN 1 ELSE -1, d |-> 0])
    ELSE Rat(num * dd, nden * dirc)

Box(lo, hi, den) == [lo |-> lo, hi |-> hi, den |-> den]

\* (self.p_min.x - ray.orig.x) * ray.inv_dir.x, for the axis ax
SlabLo(self, ray, ax) ==
    SlabT(self.lo[ax] * ray.od - ray.orig[ax] * self.den, self.den * ray.od,
          ray.dir[ax], ray.dd)

\* (self.p_max.x - ray.orig.x) * ray.inv_dir.x, for the axis ax
SlabHi(self, ray, ax) ==
    SlabT(self.hi[ax] * ray.od - ray.orig[ax] * self.den, self.den * ray.od,
          ray.dir[ax], ray.dd)

SlabNear(self, ray, ax) == FMin(SlabLo(self, ray, ax), SlabHi(self, ray, ax))

SlabFar(self, ray, ax) == FMax(SlabLo(self, ray, ax), SlabHi(self, ray, ax))

\* if t_max >= t_min.max(0.0) && t_min < tmax { *t = t_min; return true }
CheckAccept(t_min, t_max, tmax) ==
    [ok |-> FLe(FMax(t_min, FZero), t_max) /\ FLt(t_min, tmax), t |-> t_min]

\* AABB::check_intersect: [ok, t]
check_intersect(self, ray, tmax) ==
    CheckAccept(FMax(FMax(SlabNear(self, ray, "x"), SlabNear(self, ray, "y")),
                     SlabNear(self, ray, "z")),
                FMin(FMin(SlabFar(self, ray, "x"), SlabFar(self, ray, "y")),
                     SlabFar(self, ray, "z")),
                tmax)

\* AABB::point_inside, for a point with whole coordinates
point_inside(self, p) ==
    /\ p.x * self.den >= self.lo.x /\ p.x * self.den <= self.hi.x
    /\ p.y * self.den >= self.lo.y /\ p.y * self.den <= self.hi.y
    /\ p.z * self.den >= self.lo.z /\ p.z * self.den <= self.hi.z

\* Ray::new(a, b - a), the ray along the edge from a to b
EdgeRay(a, b) == [orig |-> a, od |-> 1, dir |-> VSub(b, a), dd |-> 1]

\* AABB::triangle_inside: a vertex in the box, or an edge whose ray passes
\* the slab test with tmax = 1.0
triangle_inside(self, t) ==
    \/ point_inside(self, t.points[1])
    \/ point_inside(self, t.points[2])
    \/ point_inside(self, t.points[3])
    \/ check_intersect(self, EdgeRay(t.points[1], t.points[2]), ROne).ok
    \/ check_intersect(self, EdgeRay(t.points[2], t.points[3]), ROne).ok
    \/ check_intersect(self, EdgeRay(t.points[3], t.points[1]), ROne).ok

\* AABB::init_with_point folded over the vertices of the triangles
RECURSIVE BoundsFrom(_, _, _, _)
BoundsFrom(pts, i, lo, hi) ==
    IF i > Len(pts) THEN Box(lo, hi, 1)
    ELSE BoundsFrom(pts, i + 1,
                    Vec(Min(lo.x, pts[i].x), Min(lo.y, pts[i].y), Min(lo.z, pts[i].z)),
                    Vec(Max(hi.x, pts[i].x), Max(hi.y, pts[i].y), Max(hi.z, pts[i].z)))

RECURSIVE AllPoints(_, _)
AllPoints(root, i) ==
    IF i > Len(root) THEN << >> ELSE root[i].points \o AllPoints(root, i + 1)

\* AABB::find_bounds
find_bounds(root) ==
    IF Len(root) = 0 THEN Box(Vec(0, 0, 0), Vec(0, 0, 0), 1)
    ELSE BoundsFrom(AllPoints(root, 1), 1, root[1].points[1], root[1].points[1])

\* a node that keeps every candidate it is handed
Unfiltered(root, self, ids) == ids

\* the candidates tid of ids whose triangle triangles_root[tid] passes
\* triangle_inside
InsideOf(root, self, ids) ==
    SelectSeq(ids, LAMBDA tid : triangle_inside(self, root[tid + 1]))

\* the mesh_id of every triangle of the mesh that passes triangle_inside
RootInside(root, self) ==
    LET inside == SelectSeq(root, LAMBDA t : triangle_inside(self, t))
    IN  [i \in 1 .. Len(inside) |-> inside[i].mesh_id]

\* the octants numbered with bit 0 for +y and bit 1 for +x
OctantYX(self, i) ==
    LET inc == VSub(self.hi, self.lo)
        lo  == Vec(2 * self.lo.x + (IF (i \div 2) % 2 = 1 THEN inc.x ELSE 0),
                   2 * self.lo.y + (IF i % 2 = 1 THEN inc.y ELSE 0),
                   2 * self.lo.z + (IF (i \div 4) % 2 = 1 THEN inc.z ELSE 0))
    IN  Box(lo, VAdd(lo, inc), 2 * self.den)

\* octant i of the box: v_min[i] = p_min + (hx, hy, hz as the bits of i say),
\* v_max[i] = v_min[i] + inc, with inc = (p_max - p_min) / 2.0
Octant(self, i) ==
    LET inc == VSub(self.hi, self.lo)
        lo  == Vec(2 * self.lo.x + (IF i % 2 = 1 THEN inc.x ELSE 0),
                   2 * self.lo.y + (IF (i \div 2) % 2 = 1 THEN inc.y ELSE 0),
                   2 * self.lo.z + (IF (i \div 4) % 2 = 1 THEN inc.z ELSE 0))
    IN  Box(lo, VAdd(lo, inc), 2 * self.den)

\* an AABB node: its box, is_leaf, the triangle indices of a leaf, the eight
\* children of an inner node; failed when the assert on inc fired below it
Node(self, is_leaf, triangles, aabbs, failed) ==
    [lo |-> self.lo, hi |-> self.hi, den |-> self.den, is_leaf |-> is_leaf,
     triangles |-> triangles, aabbs |-> aabbs, failed |-> failed]

RECURSIVE setup_node(_, _, _, _)

\* the eight children of a node that is split
SplitNode(root, self, v_triangles, depth) ==
    LET kids == [i \in 1 .. 8 |-> setup_node(root, Octant(self, i - 1), v_triangles,
                                             depth + 1)]
    IN  Node(self, FALSE, << >>, kids, \E i \in 1 .. 8 : kids[i].failed)

\* setup_node after the filter: a leaf if depth >= MAX_DEPTH or fewer than
\* MAX_NUM_TRIANGLES triangles are left; assert!(inc.x != 0.0 && ...)
SetupFiltered(root, self, v_triangles, depth) ==
    IF depth >= MAX_DEPTH \/ Len(v_triangles) < MAX_NUM_TRIANGLES
    THEN Node(self, TRUE, v_triangles, << >>, FALSE)
    ELSE IF self.hi.x = self.lo.x \/ self.hi.y = self.lo.y \/ self.hi.z = self.lo.z
    THEN Node(self, FALSE, << >>, << >>, TRUE)
    ELSE SplitNode(root, self, v_triangles, depth)

\* AABB::setup_node: an empty candidate list stands for the whole mesh
setup_node(root, self, triangles, depth) ==
    SetupFiltered(root, self,
                  IF Len(triangles) = 0 THEN RootInside(root, self)
                  ELSE InsideOf(root, self, triangles),
                  depth)

\* AABB::init_aabb
init_aabb(root) == setup_node(root, find_bounds(root), << >>, 0)

(***************************************************************************)
(* AABB::intercept and Mesh::intercept: [hit, tmax, oid, stats, panic],    *)
(* panic when the walk reaches assert!(!visited.contains(&close_idx)).     *)
(***************************************************************************)
MeshMiss(stats, tmax, oid) ==
    [hit |-> FALSE, tmax |-> tmax, oid |-> oid, stats |-> stats, panic |-> FALSE]

\* the loop of a leaf over its triangles: every triangle is tested against
\* the shared tmax; *oid = *triangle_id on a hit, break when any
RECURSIVE LeafScan(_, _, _, _, _, _, _, _, _, _)

LeafStep(root, ids, i, ray, tmin, any, oid, hit, r) ==
    IF r.hit /\ any
    THEN [hit |-> TRUE, tmax |-> r.tmax, oid |-> ids[i], stats |-> r.stats,
          panic |-> FALSE]
    ELSE LeafScan(root, ids, i + 1, r.stats, ray, tmin, r.tmax, any,
                  IF r.hit THEN ids[i] ELSE oid, hit \/ r.hit)

LeafScan(root, ids, i, stats, ray, tmin, tmax, any, oid, hit) ==
    IF i > Len(ids)
    THEN [hit |-> hit, tmax |-> tmax, oid |-> oid, stats |-> stats, panic |-> FALSE]
    ELSE LeafStep(root, ids, i, ray, tmin, any, oid, hit,
                  TriangleIntercept(root[ids[i] + 1], stats, ray, tmin, tmax, any, 0))

\* AABB::nearest_node: bit 0, 1, 2 set when p - mid is not negative in x, y,
\* z; p is [v, den], mid = p_min + (p_max - p_min) / 2.0
nearest_node(self, p) ==
    (IF 2 * self.den * p.v.x >= (self.lo.x + self.hi.x) * p.den THEN 1 ELSE 0)
    + (IF 2 * self.den * p.v.y >= (self.lo.y + self.hi.y) * p.den THEN 2 ELSE 0)
    + (IF 2 * self.den * p.v.z >= (self.lo.z + self.hi.z) * p.den THEN 4 ELSE 0)

\* the mid-plane test with the tmin of the first round in every round
MidPlaneFromStart(self, ray, ax, tmin0) ==
    IF LtEps(ray.dir[ax], ray.dd) THEN [hit |-> FALSE, t |-> FloatMax]
    ELSE LET r == PlaneAccept(ZeroStats,
                              Rat(((self.lo[ax] + self.hi[ax]) * ray.od
                                     - ray.orig[ax] * 2 * self.den) * ray.dd,
                                  2 * self.den * ray.od * ray.dir[ax]),
                              EPSILON, FloatMax, 0)
         IN  [hit |-> r.hit, t |-> r.tmax]

\* Plane::new(mid, axis, 0).intercept(stats, ray, tmin0, &mut t, ..) with
\* t = f64::MAX before the call: [hit, t]
MidPlane(self, ray, ax, tmin0) ==
    IF LtEps(ray.dir[ax], ray.dd) THEN [hit |-> FALSE, t |-> FloatMax]
    ELSE LET r == PlaneAccept(ZeroStats,
                              Rat(((self.lo[ax] + self.hi[ax]) * ray.od
                                     - ray.orig[ax] * 2 * self.den) * ray.dd,
                                  2 * self.den * ray.od * ray.dir[ax]),
                              tmin0, FloatMax, 0)
         IN  [hit |-> r.hit, t |-> r.tmax]

\* if t <= t_aabb { t = f64::MAX }
Beyond(t, t_aabb) == IF RLe(t, t_aabb) THEN FloatMax ELSE t

\* the position of the first plane of the walk's array that is still set
\* (3: none).  p_yz, p_xz, p_xy are the plane tests; t_yz, t_xz, t_xy their
\* parameters after Beyond
\*   planes[0] = planes[0] && t_yz <= t_xz && t_yz <= t_xy
\*   planes[1] = planes[1] && t_xz <= t_yz && t_xz <= t_xy
\*   planes[2] = planes[2] && t_xy <= t_xz && t_yz <= t_yz
FirstPlane(p_yz, p_xz, p_xy, t_yz, t_xz, t_xy, t_aabb) ==
    IF p_yz.hit /\ RLt(t_aabb, p_yz.t) /\ RLe(t_yz, t_xz) /\ RLe(t_yz, t_xy) THEN 0
    ELSE IF p_xz.hit /\ RLt(t_aabb, p_xz.t) /\ RLe(t_xz, t_yz) /\ RLe(t_xz, t_xy) THEN 1
    ELSE IF p_xy.hit /\ RLt(t_aabb, p_xy.t) /\ RLe(t_xy, t_xz) THEN 2
    ELSE 3

RMin(a, b) == IF RLt(b, a) THEN b ELSE a

\* close_idx ^ (1 << pos)
FlipBit(i, pos) ==
    LET bit == IF pos = 0 THEN 1 ELSE IF pos = 1 THEN 2 ELSE 4
    IN  IF (i \div bit) % 2 = 1 THEN i - bit ELSE i + bit

RECURSIVE AABBIntercept(_, _, _, _, _, _, _, _)

RECURSIVE Walk(_, _, _, _, _, _, _, _, _, _, _, _, _)

\* the end of one round of the walk: break when no plane is left, panic when
\* the next child was visited before, else the next round
WalkNext(root, self, st, ray, tmin, tmax, any, oid, t_aabb, close_idx, visited, k, pos, t_next) ==
    IF pos = 3 THEN MeshMiss(st, tmax, oid)
    ELSE IF \E j \in 1 .. Len(visited) : visited[j] = FlipBit(close_idx, pos)
    THEN [hit |-> FALSE, tmax |-> tmax, oid |-> oid, stats |-> st, panic |-> TRUE]
    ELSE Walk(root, self, st, ray, tmin, tmax, any, oid, t_aabb,
              FlipBit(close_idx, pos), t_next, visited, k + 1)

\* the three plane tests of one round
WalkPlanes(root, self, st, ray, tmin, tmax, any, oid, t_aabb, close_idx, visited, k, p_yz, p_xz, p_xy) ==
    WalkNext(root, self, st, ray, tmin, tmax, any, oid, t_aabb, close_idx, visited, k,
             FirstPlane(p_yz, p_xz, p_xy, Beyond(p_yz.t, t_aabb), Beyond(p_xz.t, t_aabb),
                        Beyond(p_xy.t, t_aabb), t_aabb),
             RMin(RMin(Beyond(p_yz.t, t_aabb), Beyond(p_xy.t, t_aabb)),
                  Beyond(p_xz.t, t_aabb)))

\* one round after the child close_idx answered r
WalkChild(root, self, ray, tmin, any, t_aabb, close_idx, tmin0, visited, k, r) ==
    IF r.panic \/ r.hit THEN r
    ELSE WalkPlanes(root, self,
                    [r.stats EXCEPT !["num_intersects_plane"] = @ + 3],
                    ray, tmin, r.tmax, any, r.oid, t_aabb, close_idx, visited, k,
                    MidPlane(self, ray, "x", tmin0), MidPlane(self, ray, "y", tmin0),
                    MidPlane(self, ray, "z", tmin0))

\* for _i in 0..4: visit the child close_idx, then find the next one
Walk(root, self, st, ray, tmin, tmax, any, oid, t_aabb, close_idx, tmin0, visited, k) ==
    IF k = 4 THEN MeshMiss(st, tmax, oid)
    ELSE WalkChild(root, self, ray, tmin, any, t_aabb, close_idx, tmin0,
                   Append(visited, close_idx), k,
                   AABBIntercept(root, self.aabbs[close_idx + 1], st, ray, tmin, tmax,
                                 any, oid))

\* AABB::intercept after the slab test ci of the node's box
AABBEnter(root, self, st, ray, tmin, tmax, any, oid, ci) ==
    IF ~ci.ok THEN MeshMiss(st, tmax, oid)
    ELSE IF FLt(ci.t, tmin) THEN MeshMiss(st, tmax, oid)
    ELSE IF self.is_leaf
    THEN LeafScan(root, self.triangles, 1, st, ray, tmin, tmax, any, oid, FALSE)
    ELSE Walk(root, self, st, ray, tmin, tmax, any, oid, ci.t,
              nearest_node(self, PointAt(ray, ci.t)), tmin, << >>, 0)

\* AABB::intercept
AABBIntercept(root, self, stats, ray, tmin, tmax, any, oid) ==
    AABBEnter(root, self, StatInc(stats, "num_intersects_aabb"), ray, tmin, tmax, any,
              oid, check_intersect(self, ray, tmax))

\* the loop of load_mesh over the faces of one model: a face with two equal
\* corners is skipped, triangle.mesh_id = triangles.len() before the push
\* (the rotations are by the angle 0)
RECURSIVE load_triangles(_, _, _, _)
load_triangles(faces, i, mat_id, triangles) ==
    IF i > Len(faces) THEN triangles
    ELSE IF faces[i][1] = faces[i][2] \/ faces[i][1] = faces[i][3] \/ faces[i][2] = faces[i][3]
    THEN load_triangles(faces, i + 1, mat_id, triangles)
    ELSE load_triangles(faces, i + 1, mat_id,
                        Append(triangles,
                               [Triangle(faces[i][1], faces[i][2], faces[i][3], mat_id)
                                   EXCEPT !.mesh_id = Len(triangles)]))

\* Mesh::new and Mesh::intercept: a mesh is [kind, triangles, aabb]
Mesh(triangles, material_id) ==
    [kind |-> "mesh", triangles |-> triangles, aabb |-> init_aabb(triangles),
     material_id |-> material_id]

MeshIntercept(self, stats, ray, tmin, tmax, any, oid) ==
    AABBIntercept(self.triangles, self.aabb, stats, ray, tmin, tmax, any, oid)

\* every triangle of the mesh tested in turn against the shared tmax
ScanAll(self, stats, ray, tmin, tmax, any, oid) ==
    LeafScan(self.triangles, [i \in 1 .. Len(self.triangles) |-> i - 1], 1, stats, ray,
             tmin, tmax, any, oid, FALSE)

\* Object::intercept, dispatched on the surface kind
intercept(obj, stats, ray, tmin, tmax, any, oid) ==
    IF obj.kind = "plane" THEN PlaneIntercept(obj, stats, ray, tmin, tmax, any, oid)
    ELSE IF obj.kind = "sphere" THEN SphereIntercept(obj, stats, ray, tmin, tmax, any, oid)
    ELSE IF obj.kind = "mesh" THEN MeshIntercept(obj, stats, ray, tmin, tmax, any, oid)
    ELSE TriangleIntercept(obj, stats, ray, tmin, tmax, any, oid)

\* Triangle::get_normal
TriangleNormal(self) ==
    normalize(cross(VSub(self.points[2], self.points[1]),
                    VSub(self.points[3], self.points[1])))

\* Object::get_normal, as [v, den]; a sphere's is (point - center) / radius,
\* a mesh's that of its triangle oid
get_normal(obj, point, oid) ==
    IF obj.kind = "plane" THEN obj.normal
    ELSE IF obj.kind = "sphere"
    THEN VReduce(VSub(point.v, VScale(obj.center, point.den)), point.den * obj.radius)
    ELSE IF obj.kind = "mesh" THEN TriangleNormal(obj.triangles[oid + 1])
    ELSE TriangleNormal(obj)

\* Object::get_material_id
get_material_id(obj) == obj.material_id

(***************************************************************************)
(* The closest hit of trace_ray and trace_ray_path:                        *)
(*   objects.iter().filter(|obj| obj.intercept(.., &mut t, .., &mut s_id)) *)
(*          .last()                                                        *)
(* every surface is tested in list order against the shared t; the result  *)
(* is the last surface whose test returned true (0: none).                 *)
(***************************************************************************)
\* the state of the scan after surface i answered r
HitStep(i, r, acc) ==
    [hit_obj |-> IF r.hit THEN i ELSE acc.hit_obj, t |-> r.tmax, s_id |-> r.oid,
     stats |-> r.stats]

RECURSIVE HitScan(_, _, _, _)
HitScan(objects, i, ray, acc) ==
    IF i > Len(objects) THEN acc
    ELSE HitScan(objects, i + 1, ray,
                 HitStep(i, intercept(objects[i], acc.stats, ray, EPSILON, acc.t, FALSE,
                                      acc.s_id), acc))

ClosestHit(objects, stats, ray) ==
    HitScan(objects, 1, ray, [hit_obj |-> 0, t |-> FloatMax, s_id |-> 0, stats |-> stats])


(***************************************************************************)
(* Materials and lights.  A material is [kd, ks, ke, checkered] as         *)
(* render.rs reads it (ks a scalar in 1/RGBUnit); the scenes of the model  *)
(* are lit by ambient lights only and use no checkered material.           *)
(***************************************************************************)
Material(kd, ks, ke) == [kd |-> kd, ks |-> ks, ke |-> ke, checkered |-> FALSE]

AmbientLight(rgb, intensity) == [kind |-> "ambient", rgb |-> rgb, intensity |-> intensity]

\* AmbientLight::get_contrib: mat.kd * self.rgb * self.intensity
get_contrib(light, mat) == RGBScale(RGBMul(mat.kd, light.rgb), light.intensity)

\* self.lights.iter().fold(RGB::new(), |acc, light| acc + c_light)
RECURSIVE LightFold(_, _, _)
LightFold(lights, i, mat) ==
    IF i > Len(lights) THEN RGBNew
    ELSE RGBAdd(get_contrib(lights[i], mat), LightFold(lights, i + 1, mat))

\* the miss branch of trace_ray: cmax * s + cyan * (1 - s) with
\* s = |ray.dir . screen_v| / |ray.dir|, screen_v normalised
Blend(s) ==
    RGBAdd(RGBScale(RGB(RGBUnit, RGBUnit, RGBUnit), s),
           RGBScale(RGB((4 * RGBUnit) \div 10, (6 * RGBUnit) \div 10, (9 * RGBUnit) \div 10),
                    RGBUnit - s))

BackgroundAlong(ray, sv) ==
    Blend(Min(RGBUnit, TDiv(Abs(dot(ray.dir, sv.v)) * RGBUnit * NScale,
                            sv.den * norm(ray.dir))))

Background(scene, ray) == BackgroundAlong(ray, normalize(scene.screen_v))

(***************************************************************************)
(* trace_ray (Whitted): [c, stats, hit_obj, t]                             *)
(***************************************************************************)
RECURSIVE trace_ray(_, _, _, _)

\* Reflected as it would be if the reflection were added at full weight
ReflectedUnweighted(c, r, h) ==
    [c |-> RGBAdd(c, r.c), stats |-> r.stats, hit_obj |-> h.hit_obj, t |-> h.t]

\* c = c * (1.0 - ks) + c_reflect * ks with ks = 0.1, r the traced reflection
Reflected(c, r, h) ==
    [c |-> RGBAdd(RGBScale(c, RGBUnit - RGBUnit \div 10), RGBScale(r.c, RGBUnit \div 10)),
     stats |-> r.stats, hit_obj |-> h.hit_obj, t |-> h.t]

\* the hit branch of trace_ray: the lights' contributions, and the
\* reflection when the material has ks > 0
ShadeHit(scene, ray, depth, h, hit_obj, hit_point, hit_material) ==
    IF hit_material.ks > 0
    THEN Reflected(LightFold(scene.lights, 1, hit_material),
                   trace_ray(scene, StatInc(h.stats, "num_rays_reflection"),
                             get_reflection(ray, hit_point,
                                            get_normal(hit_obj, hit_point, h.s_id)),
                             depth + 1),
                   h)
    ELSE [c |-> LightFold(scene.lights, 1, hit_material), stats |-> h.stats,
          hit_obj |-> h.hit_obj, t |-> h.t]

\* trace_ray after the closest-hit scan h
Shade(scene, ray, depth, h) ==
    IF h.hit_obj # 0
    THEN ShadeHit(scene, ray, depth, h, scene.objects[h.hit_obj], PointAt(ray, h.t),
                  scene.materials[get_material_id(scene.objects[h.hit_obj]) + 1])
    ELSE [c |-> Background(scene, ray), stats |-> h.stats, hit_obj |-> 0, t |-> h.t]

\* trace_ray as it would be if the call beyond the depth limit were not counted
trace_ray_uncounted(scene, stats, ray, depth) ==
    IF depth > scene.reflection_max_depth
    THEN [c |-> RGBNew, stats |-> stats, hit_obj |-> 0, t |-> FloatMax]
    ELSE Shade(scene, ray, depth, ClosestHit(scene.objects, stats, ray))

trace_ray(scene, stats, ray, depth) ==
    IF depth > scene.reflection_max_depth
    THEN [c |-> RGBNew, stats |-> StatInc(stats, "num_rays_reflection_max"),
          hit_obj |-> 0, t |-> FloatMax]
    ELSE Shade(scene, ray, depth, ClosestHit(scene.objects, stats, ray))

(***************************************************************************)
(* fast_rand (vec3.rs): wyhash on a u64 state with u128 products.  The     *)
(* model keeps the algorithm at a width of RndBits bits (products at twice *)
(* that), with the low bytes of the program's three constants.             *)
(***************************************************************************)
RndBits == 8

RECURSIVE Pow2(_)
Pow2(k) == IF k = 0 THEN 1 ELSE 2 * Pow2(k - 1)

RndMod == Pow2(RndBits)

RECURSIVE Xor(_, _)
Xor(a, b) == IF a = 0 THEN b ELSE IF b = 0 THEN a
             ELSE 2 * Xor(a \div 2, b \div 2) + (IF (a % 2) = (b % 2) THEN 0 ELSE 1)

\* u128_fold: ((v >> 64) ^ v) as u64
u128_fold(v) == Xor(v \div RndMod, v) % RndMod

\* fast_rand: [v, state]
fast_rand(rnd_state) ==
    LET st  == (rnd_state + 21) % RndMod
        tmp == u128_fold(st * 13) * 201
    IN  [v |-> u128_fold(tmp), state |-> st]

\* Vec3::gen_rnd_sphere: three draws, each x / max - 0.5 (here 2x - max over
\* 2 max), repeated until the norm n of the vector has EPSILON < n <= 1;
\* the result is normalised.  [v, den, state]
RECURSIVE gen_rnd_sphere(_)

SphereUnit(u, state) == [v |-> u.v, den |-> u.den, state |-> state]

SphereAccept(v, state) ==
    IF dot(v, v) > 0 /\ dot(v, v) <= 4 * (RndMod - 1) * (RndMod - 1)
    THEN SphereUnit(normalize(v), state)
    ELSE gen_rnd_sphere(state)

SphereZ(rx, ry, rz) ==
    SphereAccept(Vec(2 * rx.v - (RndMod - 1), 2 * ry.v - (RndMod - 1),
                     2 * rz.v - (RndMod - 1)), rz.state)

SphereY(rx, ry) == SphereZ(rx, ry, fast_rand(ry.state))

SphereX(rx) == SphereY(rx, fast_rand(rx.state))

gen_rnd_sphere(rnd_state) == SphereX(fast_rand(rnd_state))

(***************************************************************************)
(* trace_ray_path: [c, stats, rnd_state]                                   *)
(***************************************************************************)
RECURSIVE trace_ray_path(_, _, _, _, _)

\* if hit_material.ks == 0.0 { c0 * hit_material.kd } else { c0 * hit_material.ks }
PathTint(c0, hit_material) ==
    [c |-> IF hit_material.ks = 0 THEN RGBMul(c0.c, hit_material.kd)
           ELSE RGBScale(c0.c, hit_material.ks),
     stats |-> c0.stats, rnd_state |-> c0.rnd_state]

\* reflected_ray.dir = (reflected_ray.dir.normalize() + gen_rnd_sphere).normalize()
DiffuseRay(rr, rn, g) ==
    RayFrom([v |-> rr.orig, den |-> rr.od],
            normalize(VAdd(VScale(rn.v, g.den), VScale(g.v, rn.den))))

\* the bounce of trace_ray_path off a surface that emits nothing: rr is the
\* mirror reflection, g the draw of gen_rnd_sphere for a material with ks = 0
PathBounce(scene, st, rnd_state, depth, hit_material, rr, g) ==
    PathTint(IF hit_material.ks = 0
             THEN trace_ray_path(scene, st, g.state, DiffuseRay(rr, normalize(rr.dir), g),
                                 depth + 1)
             ELSE trace_ray_path(scene, st, rnd_state, rr, depth + 1),
             hit_material)

\* trace_ray_path on a hit of hit_obj with material hit_material
PathHit(scene, h, rnd_state, ray, depth, hit_obj, hit_material, hit_point) ==
    IF ~RGBIsZero(hit_material.ke)
    THEN [c |-> hit_material.ke, stats |-> h.stats, rnd_state |-> rnd_state]
    ELSE PathBounce(scene, StatInc(h.stats, "num_rays_reflection"), rnd_state, depth,
                    hit_material,
                    get_reflection(ray, hit_point, get_normal(hit_obj, hit_point, h.s_id)),
                    gen_rnd_sphere(rnd_state))

\* trace_ray_path after the closest-hit scan h
PathShade(scene, h, rnd_state, ray, depth) ==
    IF h.hit_obj = 0
    THEN [c |-> RGBNew, stats |-> h.stats, rnd_state |-> rnd_state]
    ELSE PathHit(scene, h, rnd_state, ray, depth, scene.objects[h.hit_obj],
                 scene.materials[get_material_id(scene.objects[h.hit_obj]) + 1],
                 PointAt(ray, h.t))

trace_ray_path(scene, stats, rnd_state, ray, depth) ==
    IF depth > scene.reflection_max_depth
    THEN [c |-> RGBNew, stats |-> StatInc(stats, "num_rays_reflection_max"),
          rnd_state |-> rnd_state]
    ELSE PathShade(scene, ClosestHit(scene.objects, stats, ray), rnd_state, ray, depth)


(***************************************************************************)
(* Camera (camera.rs) after init(): position, forward direction and the    *)
(* two screen vectors, screen_u scaled by the aspect res_x / res_y.  The   *)
(* camera of the model sits at the origin and looks along +z with          *)
(* 2 tan(vfov / 2) = 1.                                                    *)
(***************************************************************************)
Camera(res_x, res_y) ==
    [pos |-> Vec(0, 0, 0), dir |-> Vec(0, 0, 1),
     screen_u |-> [v |-> Vec(res_x, 0, 0), den |-> res_y],
     screen_v |-> [v |-> Vec(0, 1, 0), den |-> 1]]

\* Camera::get_ray(u, v): pixel = pos + dir + screen_u * u + screen_v * v,
\* the ray from pos with direction pixel - pos; u and v are fractions
get_ray(camera, u, v) ==
    LET den == camera.screen_u.den * u.d * camera.screen_v.den * v.d
        dir == VAdd(VScale(camera.dir, den),
                    VAdd(VScale(camera.screen_u.v, u.n * camera.screen_v.den * v.d),
                         VScale(camera.screen_v.v, v.n * camera.screen_u.den * u.d)))
    IN  Ray(camera.pos, 1, dir, den)

(***************************************************************************)
(* The scene of the model: a lit wall across the view (the plane through   *)
(* (30, 0, 0) with normal (-4, 0, -3) / 5, emissive for path tracing) and  *)
(* a small diffuse triangle in front of it, under one ambient light.       *)
(***************************************************************************)
ReflectionMaxDepth == 2

Materials ==
    << Material(RGB((8 * RGBUnit) \div 10, (8 * RGBUnit) \div 10, (6 * RGBUnit) \div 10),
                RGBUnit \div 10,
                RGB(RGBUnit, RGBUnit, (8 * RGBUnit) \div 10)),
       Material(RGB(RGBUnit \div 2, RGBUnit \div 5, RGBUnit \div 5), 0, RGBNew) >>

Objects ==
    << Plane(Vec(30, 0, 0), [v |-> Vec(-4, 0, -3), den |-> 5], 0),
       Triangle(Vec(5, 4, 20), Vec(6, 4, 20), Vec(5, 5, 20), 1) >>

Lights == << AmbientLight(RGB(RGBUnit, RGBUnit, RGBUnit), RGBUnit) >>

\* the RenderJob after load_scene: camera, objects, lights, materials and the
\* reflection depth limit of its RenderConfig
Scene(res_x, res_y) ==
    [objects |-> Objects, lights |-> Lights, materials |-> Materials,
     camera |-> Camera(res_x, res_y), screen_v |-> Vec(0, 1, 0),
     reflection_max_depth |-> ReflectionMaxDepth]

(***************************************************************************)
(* The pixel sampler (render.rs).  The configurations of the model have    *)
(* use_adaptive_sampling = false: calc_ray_box takes its first branch and  *)
(* trace_primary_ray does not consult the per-task map.                    *)
(***************************************************************************)
\* the colour and the counters of a traced ray
Traced(r) == [c |-> r.c, stats |-> r.stats]

\* trace_primary_ray: [c, stats]
trace_primary_ray(scene, stats, u, v) ==
    Traced(trace_ray(scene, StatInc(stats, "num_rays_sampling"),
                     get_ray(scene.camera, u, v), 0))

\* a + b / 2 for fractions over small denominators
RAddHalf(a, b) == Rat(2 * a.n * b.d + b.n * a.d, 2 * a.d * b.d)

\* calc_ray_box as it would be if it sampled the corner (pos_u, pos_v) of the box
calc_ray_box_corner(scene, stats, pos_u, pos_v, du, dv, lvl) ==
    trace_primary_ray(scene, stats, pos_u, pos_v)

\* calc_ray_box, use_adaptive_sampling = false: one ray through the centre
\* (pos_u + du / 2, pos_v + dv / 2) of the box
calc_ray_box(scene, stats, pos_u, pos_v, du, dv, lvl) ==
    trace_primary_ray(scene, stats, RAddHalf(pos_u, du), RAddHalf(pos_v, dv))

\* the jitter offsets are drawn from [0, du) and [0, dv): the model draws
\* k / OffDen of the box side, k in 0 .. OffDen - 1
OffDen == 2

ROff(a, b, k) == Rat(a.n * b.d * OffDen + k * b.n * a.d, a.d * b.d * OffDen)

\* rand::thread_rng() as one task sees it: the values it hands out are the
\* draws of the thread's entropy-seeded generator, here a per-task stream
\* fixed by the task's tile origin
thread_rng_task_seeded(x0, y0, draws) ==
    [seed |-> (x0 + y0) % RndMod, ku |-> [i \in DOMAIN draws.ku |-> 0],
     kv |-> [i \in DOMAIN draws.kv |-> 0]]

\* rand::thread_rng() as one task sees it: the values it hands out are the
\* draws of the thread's entropy-seeded generator, whatever the task
thread_rng(x0, y0, draws) == draws

\* the sample loop of calc_ray_box_path, c the sum so far:
\* for _i in 0..path_tracing { ...; c += self.trace_ray_path(..) }
RECURSIVE PathSamples(_, _, _, _, _, _, _, _, _, _, _)

PathAdd(scene, rng, pos_u, pos_v, du, dv, i, n, c, r) ==
    PathSamples(scene, r.stats, r.rnd_state, rng, pos_u, pos_v, du, dv, i + 1, n,
                RGBAdd(c, r.c))

PathSamples(scene, stats, rnd_state, rng, pos_u, pos_v, du, dv, i, n, c) ==
    IF i > n THEN [c |-> c, stats |-> stats, rnd_state |-> rnd_state]
    ELSE PathAdd(scene, rng, pos_u, pos_v, du, dv, i, n, c,
                 trace_ray_path(scene, StatInc(stats, "num_rays_sampling"), rnd_state,
                                get_ray(scene.camera, ROff(pos_u, du, rng.ku[i]),
                                        ROff(pos_v, dv, rng.kv[i])), 0))

\* c / self.cfg.path_tracing as f32
PathMean(r, n) == [c |-> RGBDiv(r.c, n), stats |-> r.stats, panic |-> FALSE]

\* calc_ray_box_path: [c, stats, panic]; rng holds the values drawn from
\* thread_rng by this call: the seed of rnd_state and the offsets.  The two
\* assert!s panic.
calc_ray_box_path(scene, config, stats, rng, pos_u, pos_v, du, dv) ==
    IF config.use_adaptive_sampling \/ ~(config.path_tracing > 1)
    THEN [c |-> RGBNew, stats |-> stats, panic |-> TRUE]
    ELSE PathMean(PathSamples(scene, stats, rng.seed, rng, pos_u, pos_v, du, dv,
                              1, config.path_tracing, RGBNew),
                  config.path_tracing)

Sampled(r) == [c |-> r.c, stats |-> r.stats, panic |-> FALSE]

\* render_pixel_box for the pixel (x, y) at (pos_u, pos_v)
render_pixel_at(scene, config, stats, rng, pos_u, pos_v, du, dv) ==
    IF config.path_tracing > 1
    THEN calc_ray_box_path(scene, config, stats, rng, pos_u, pos_v, du, dv)
    ELSE Sampled(calc_ray_box(scene, stats, pos_u, pos_v, du, dv, 0))

\* the body of the pixel loop of render_pixel_box up to push_pixel:
\* [c, stats, panic] for the pixel (x, y), with du = 1 / res_x, dv = 1 / res_y,
\* pos_u = 1/2 - x * du and pos_v = 1/2 - y * dv
render_pixel(scene, config, stats, rng, x, y) ==
    render_pixel_at(scene, config, stats, rng,
                    Rat(config.res_x - 2 * x, 2 * config.res_x),
                    Rat(config.res_y - 2 * y, 2 * config.res_y),
                    Rat(1, config.res_x), Rat(1, config.res_y))

(***************************************************************************)
(* The scheduler (render.rs): render_scene runs one task per tile, or per  *)
(* row with use_lines, on a pool of worker threads.                        *)
(***************************************************************************)
NumWorkers == 2

\* the RenderConfig values of the model
Cfg(res_x, res_y, use_lines, path_tracing) ==
    [res_x |-> res_x, res_y |-> res_y, use_lines |-> use_lines,
     path_tracing |-> path_tracing, use_adaptive_sampling |-> FALSE]

Configs ==
    { Cfg(33, 4, FALSE, 1), Cfg(65, 2, TRUE, 1), Cfg(2, 3, FALSE, 1),
      Cfg(2, 3, TRUE, 1), Cfg(13, 10, FALSE, 2) }

\* the values one call of calc_ray_box_path may draw from thread_rng; the
\* Whitted sampler draws none
NoDraws == [seed |-> 0, ku |-> << >>, kv |-> << >>]

Seeds == {2, 4}

Draws(n) ==
    { [seed |-> s, ku |-> [i \in 1 .. n |-> k], kv |-> [i \in 1 .. n |-> k]] :
        s \in Seeds, k \in 0 .. (OffDen - 1) }

\* render_image_box: let mut step = 32; if self.cfg.path_tracing > 1 { step = 10 }
TileStep(c) == IF c.path_tracing > 1 THEN 10 ELSE 32

\* render_image_box: nx and ny
TileNx(c) == (c.res_x + TileStep(c) - 1) \div TileStep(c)

TileNy(c) == (c.res_y + TileStep(c) - 1) \div TileStep(c)

\* the items of the parallel iterator: 0 .. res_y or 0 .. ny * nx
NumTasks(c) == IF c.use_lines THEN c.res_y ELSE TileNy(c) * TileNx(c)

Tasks(c) == 0 .. (NumTasks(c) - 1)

\* the arguments x0, y0, sz_x, sz_y of the task's call of render_pixel_box
TaskX0(c, v) == IF c.use_lines THEN 0 ELSE (v % TileNx(c)) * TileStep(c)

TaskY0(c, v) == IF c.use_lines THEN v ELSE (v \div TileNx(c)) * TileStep(c)

TaskSzX(c) == IF c.use_lines THEN c.res_x ELSE TileStep(c)

TaskSzY(c) == IF c.use_lines THEN 1 ELSE TileStep(c)

\* render_pixel_box: let x_max = (x0 + sz_x).min(self.cfg.res_x)
XMax(c, x0, sz_x) == Min(x0 + sz_x, c.res_x)

\* render_pixel_box: let y_max = (y0 + sz_y).min(self.cfg.res_y)
YMax(c, y0, sz_y) == Min(y0 + sz_y, c.res_y)

\* the argument of report_progress of a skipped task, as it would be if the
\* task reported nothing
SkipProgressNone(c) == 0

\* the argument of report_progress of a task that observed the exit flag
SkipProgress(c) == IF c.use_lines THEN c.res_x ELSE TileStep(c) * TileStep(c)

\* the argument of report_progress of a task that rendered
DoneProgress(c) == IF c.use_lines THEN c.res_x ELSE TileStep(c) * TileStep(c)

\* the exit flag as it would be observed if it were read at every pixel
ObservesExitAnywhere(pc, flag) == flag

\* exit_req.load(): the flag is read at the start of the task only
ObservesExit(pc, flag) == pc = "idle" /\ flag

\* report_progress: pct as it would be without min(1.0)
PctUnclamped(total, denom) == [n |-> total, d |-> denom]

\* report_progress: (total / denom).min(1.0) as the fraction n / d
Pct(total, denom) == [n |-> Min(total, denom), d |-> denom]

\* report_progress: the condition d under which the callback is invoked
ProgressDue(before, total, denom) ==
    LET bucket == denom \div 128
    IN  (before \div bucket) # (total \div bucket)
        \/ (100 * Abs(denom - total)) \div denom < 1

\* image index of the pixel (x, y): y * res_x + x
PixelIndex(c, x, y) == y * c.res_x + x

Pixels(c) == 0 .. (c.res_x * c.res_y - 1)

\* the pixels of task v: the iteration space of its render_pixel_box call
TaskPixels(c, v) ==
    { PixelIndex(c, x, y) :
        x \in TaskX0(c, v) .. (XMax(c, TaskX0(c, v), TaskSzX(c)) - 1),
        y \in TaskY0(c, v) .. (YMax(c, TaskY0(c, v), TaskSzY(c)) - 1) }

(***************************************************************************)
(* State.  cfg, exit_req, image, progress_total, total_stats are the       *)
(* program's; tasks holds each task's position, cursor and local stats.    *)
(* History kept for the properties: writes and writer per pixel, oob (a    *)
(* push_pixel outside the image was issued), progress_log (the values      *)
(* passed to the progress callback), per task skipped, reports (the        *)
(* arguments of its report_progress calls) and merged (how often its stats *)
(* were added), last (the pixel last pushed and the values its sampler     *)
(* drew).  tr is the state of the closest-hit comparison.                  *)
(***************************************************************************)
VARIABLES cfg, exit_req, tasks, image, writes, writer, oob, progress_total,
          progress_poisoned, progress_log, total_stats, render_state, last, tr

vars == << cfg, exit_req, tasks, image, writes, writer, oob, progress_total,
           progress_poisoned, progress_log, total_stats, render_state, last, tr >>

NoResult == [hit |-> -1, t |-> FloatMax, c |-> RGBNew]

NoTrace == [pc |-> "off", ray |-> << >>, order_a |-> << >>, order_b |-> << >>,
            a |-> NoResult, b |-> NoResult]

\* a task before it runs: the closure's let mut stats = Default::default()
NewTask == [pc |-> "idle", x |-> 0, y |-> 0, stats |-> ZeroStats, skipped |-> FALSE,
            reports |-> << >>, merged |-> 0]

\* RenderJob::new, load_scene and alloc_image: counters zero, image filled
\* with zeros, no task started
InitJob(c) ==
    /\ cfg = c
    /\ exit_req = FALSE
    /\ tasks = [v \in Tasks(cfg) |-> NewTask]
    /\ image = [p \in Pixels(cfg) |-> RGBNew]
    /\ writes = [p \in Pixels(cfg) |-> 0]
    /\ writer = [p \in Pixels(cfg) |-> -1]
    /\ oob = FALSE
    /\ progress_total = 0
    /\ progress_poisoned = FALSE
    /\ progress_log = << >>
    /\ total_stats = ZeroStats
    /\ render_state = "running"
    /\ last = [p |-> -1, rng |-> NoDraws]

Init == (\E c \in Configs : InitJob(c)) /\ tr = NoTrace

Running(v) == tasks[v].pc \in {"render", "report", "add"}

Ended(v) == tasks[v].pc \in {"done", "panicked", "dropped"}

\* a worker thread is free to take an item
WorkerFree == Cardinality({v \in Tasks(cfg) : Running(v)}) < NumWorkers

\* the viewer's stop request: rendering_needs_stop.store(true)
SetExit ==
    /\ render_state = "running"
    /\ exit_req = FALSE
    /\ exit_req' = TRUE
    /\ UNCHANGED << cfg, tasks, image, writes, writer, oob, progress_total,
                    progress_poisoned, progress_log, total_stats, render_state, last, tr >>

\* a task starts and reads the exit flag as false: it enters render_pixel_box
BeginTask(v) ==
    /\ render_state = "running"
    /\ tasks[v].pc = "idle"
    /\ WorkerFree
    /\ ~ObservesExit(tasks[v].pc, exit_req)
    /\ LET x0 == TaskX0(cfg, v)
           y0 == TaskY0(cfg, v)
           empty == x0 >= XMax(cfg, x0, TaskSzX(cfg)) \/ y0 >= YMax(cfg, y0, TaskSzY(cfg))
       IN  tasks' = [tasks EXCEPT ![v].pc = IF empty THEN "report" ELSE "render",
                                  ![v].x = x0, ![v].y = y0]
    /\ UNCHANGED << cfg, exit_req, image, writes, writer, oob, progress_total,
                    progress_poisoned, progress_log, total_stats, render_state, last, tr >>

\* a task starts and reads the exit flag as true: it goes to report_progress
SkipTask(v) ==
    /\ render_state = "running"
    /\ tasks[v].pc = "idle"
    /\ WorkerFree
    /\ ObservesExit(tasks[v].pc, exit_req)
    /\ tasks' = [tasks EXCEPT ![v].pc = "report", ![v].skipped = TRUE]
    /\ UNCHANGED << cfg, exit_req, image, writes, writer, oob, progress_total,
                    progress_poisoned, progress_log, total_stats, render_state, last, tr >>

\* what the pixel loop computes for each pixel of each task, for every value
\* its sampler may draw: render_pixel on zero counters, tabulated once.  The
\* sampler only increments the counters it is handed, so its result on a
\* task's counters is StatsPlus of the two.
DrawsOf(c) == IF c.path_tracing > 1 THEN Draws(c.path_tracing) ELSE {NoDraws}

SampleTable ==
    [c \in Configs |->
       [v \in Tasks(c) |->
          [p \in TaskPixels(c, v) |->
             [d \in DrawsOf(c) |->
                render_pixel(Scene(c.res_x, c.res_y), c, ZeroStats,
                             thread_rng(TaskX0(c, v), TaskY0(c, v), d),
                             p % c.res_x, p \div c.res_x)]]]]

StatsPlus(stats, delta) == [f \in StatFields |-> stats[f] + delta[f]]

\* one turn of the pixel loop of render_pixel_box: the colour of (x, y) is
\* computed and pushed under the image lock, and the cursor advances.  A
\* coordinate outside the image makes put_pixel panic.
RenderPixel(v) ==
    /\ render_state = "running"
    /\ tasks[v].pc = "render"
    /\ \E d \in DrawsOf(cfg) :
         LET t     == tasks[v]
             x0    == TaskX0(cfg, v)
             x_max == XMax(cfg, x0, TaskSzX(cfg))
             y_max == YMax(cfg, TaskY0(cfg, v), TaskSzY(cfg))
             p     == PixelIndex(cfg, t.x, t.y)
             inside == t.x < cfg.res_x /\ t.y < cfg.res_y
             r     == SampleTable[cfg][v][p][d]
             more_x == t.x + 1 < x_max
             more_y == t.y + 1 < y_max
         IN  IF ObservesExit(t.pc, exit_req)
             THEN /\ tasks' = [tasks EXCEPT ![v].pc = "report", ![v].skipped = TRUE]
                  /\ UNCHANGED << image, writes, writer, oob, last >>
             ELSE IF ~inside
             THEN /\ tasks' = [tasks EXCEPT ![v].pc = "panicked"]
                  /\ oob' = TRUE
                  /\ UNCHANGED << image, writes, writer, last >>
             ELSE IF r.panic
             THEN /\ tasks' = [tasks EXCEPT ![v].pc = "panicked",
                                            ![v].stats = StatsPlus(@, r.stats)]
                  /\ UNCHANGED << image, writes, writer, oob, last >>
             ELSE /\ image' = [image EXCEPT ![p] = r.c]
                  /\ writes' = [writes EXCEPT ![p] = @ + 1]
                  /\ writer' = [writer EXCEPT ![p] = v]
                  /\ last' = [p |-> p, rng |-> d]
                  /\ tasks' = [tasks EXCEPT
                                 ![v].stats = StatsPlus(@, r.stats),
                                 ![v].x = IF more_x THEN t.x + 1 ELSE x0,
                                 ![v].y = IF more_x THEN t.y ELSE t.y + 1,
                                 ![v].pc = IF more_x \/ more_y THEN "render" ELSE "report"]
                  /\ oob' = oob
    /\ UNCHANGED << cfg, exit_req, progress_total, progress_poisoned, progress_log,
                    total_stats, render_state, tr >>

\* report_progress(v) running to its end: the counter grows by the task's
\* argument and the callback is invoked when due; a skipped task returns,
\* a rendering task goes on to add its stats
ReportProgress(v) ==
    /\ render_state = "running"
    /\ tasks[v].pc = "report"
    /\ ~progress_poisoned
    /\ (cfg.res_x * cfg.res_y) \div 128 # 0
    /\ LET denom == cfg.res_x * cfg.res_y
           n     == IF tasks[v].skipped THEN SkipProgress(cfg) ELSE DoneProgress(cfg)
           total == progress_total + n
       IN  /\ progress_total' = total
           /\ progress_log' = IF ProgressDue(progress_total, total, denom)
                               THEN Append(progress_log, Pct(total, denom))
                               ELSE progress_log
           /\ tasks' = [tasks EXCEPT ![v].reports = Append(@, n),
                                      ![v].pc = IF tasks[v].skipped THEN "done" ELSE "add"]
    /\ UNCHANGED << cfg, exit_req, image, writes, writer, oob, progress_poisoned,
                    total_stats, render_state, last, tr >>

\* report_progress(v) panicking: lock().unwrap() on the poisoned mutex, or
\* div_euclid by denom / 128 = 0, which poisons the mutex it holds
ReportProgressPanic(v) ==
    /\ render_state = "running"
    /\ tasks[v].pc = "report"
    /\ progress_poisoned \/ (cfg.res_x * cfg.res_y) \div 128 = 0
    /\ progress_poisoned' = TRUE
    /\ tasks' = [tasks EXCEPT
                   ![v].reports = Append(@, IF tasks[v].skipped THEN SkipProgress(cfg)
                                            ELSE DoneProgress(cfg)),
                   ![v].pc = "panicked"]
    /\ UNCHANGED << cfg, exit_req, image, writes, writer, oob, progress_total,
                    progress_log, total_stats, render_state, last, tr >>

\* self.total_stats.lock().unwrap().add(stats)
AddStats(v) ==
    /\ render_state = "running"
    /\ tasks[v].pc = "add"
    /\ total_stats' = RenderStatsAdd(total_stats, tasks[v].stats)
    /\ tasks' = [tasks EXCEPT ![v].pc = "done", ![v].merged = @ + 1]
    /\ UNCHANGED << cfg, exit_req, image, writes, writer, oob, progress_total,
                    progress_poisoned, progress_log, render_state, last, tr >>

\* for_each after a panic: the items left in the panicking task's share of
\* the iterator are not run.  Which items share a piece depends on the size
\* of the pool and on stealing: any item not yet started may be left out.
DropTask(v) ==
    /\ render_state = "running"
    /\ tasks[v].pc = "idle"
    /\ \E w \in Tasks(cfg) : tasks[w].pc = "panicked"
    /\ tasks' = [tasks EXCEPT ![v].pc = "dropped"]
    /\ UNCHANGED << cfg, exit_req, image, writes, writer, oob, progress_total,
                    progress_poisoned, progress_log, total_stats, render_state, last, tr >>

\* render_scene returns: every task ran to its end
RenderReturn ==
    /\ render_state = "running"
    /\ \A v \in Tasks(cfg) : tasks[v].pc = "done"
    /\ render_state' = "returned"
    /\ UNCHANGED << cfg, exit_req, tasks, image, writes, writer, oob, progress_total,
                    progress_poisoned, progress_log, total_stats, last, tr >>

\* render_scene unwinds: every task ended and one of them panicked
RenderUnwind ==
    /\ render_state = "running"
    /\ \A v \in Tasks(cfg) : Ended(v)
    /\ \E v \in Tasks(cfg) : tasks[v].pc = "panicked"
    /\ render_state' = "panicked"
    /\ UNCHANGED << cfg, exit_req, tasks, image, writes, writer, oob, progress_total,
                    progress_poisoned, progress_log, total_stats, last, tr >>

Next ==
    \/ SetExit
    \/ \E v \in Tasks(cfg) : BeginTask(v)
    \/ \E v \in Tasks(cfg) : SkipTask(v)
    \/ \E v \in Tasks(cfg) : RenderPixel(v)
    \/ \E v \in Tasks(cfg) : ReportProgress(v)
    \/ \E v \in Tasks(cfg) : ReportProgressPanic(v)
    \/ \E v \in Tasks(cfg) : AddStats(v)
    \/ \E v \in Tasks(cfg) : DropTask(v)
    \/ RenderReturn
    \/ RenderUnwind

Spec == Init /\ [][Next]_vars

(***************************************************************************)
(* The closest-hit scan under two orderings of one surface list.  The list *)
(* holds a wall, a second surface in the same plane with another material, *)
(* and the triangle in front of them; a ray is traced with the list in     *)
(* order_a, then in order_b.                                               *)
(***************************************************************************)
TraceObjects ==
    << Plane(Vec(30, 0, 0), [v |-> Vec(-4, 0, -3), den |-> 5], 0),
       Plane(Vec(30, 0, 0), [v |-> Vec(-4, 0, -3), den |-> 5], 1),
       Triangle(Vec(5, 4, 20), Vec(6, 4, 20), Vec(5, 5, 20), 1) >>

Orders ==
    { o \in [1 .. Len(TraceObjects) -> 1 .. Len(TraceObjects)] :
        \A i, j \in 1 .. Len(TraceObjects) : o[i] = o[j] => i = j }

\* primary rays through the corners of the pixels of a 13 x 10 image
TraceRays ==
    { get_ray(Camera(13, 10), Rat(13 - 2 * x, 26), Rat(10 - 2 * y, 20)) :
        x \in 0 .. 12, y \in 2 .. 4 }

TraceScene(order) ==
    [Scene(13, 10) EXCEPT !.objects = [i \in 1 .. Len(order) |-> TraceObjects[order[i]]]]

\* the surface, the hit parameter and the colour trace_ray settles on;
\* the surface is named by its place in TraceObjects (0: no hit)
TraceResult(order, r) ==
    [hit |-> IF r.hit_obj = 0 THEN 0 ELSE order[r.hit_obj], t |-> r.t, c |-> r.c]

TraceTable ==
    [o \in Orders |->
       [ray \in TraceRays |-> TraceResult(o, trace_ray(TraceScene(o), ZeroStats, ray, 0))]]

InitTrace ==
    /\ InitJob(Cfg(2, 3, FALSE, 1))
    /\ tr \in { [pc |-> "start", ray |-> ray, order_a |-> oa, order_b |-> ob,
                  a |-> NoResult, b |-> NoResult] :
                  ray \in TraceRays, oa \in Orders, ob \in Orders }

\* trace_ray with the surface list in order_a
TraceA ==
    /\ tr.pc = "start"
    /\ tr' = [tr EXCEPT !.pc = "a", !.a = TraceTable[tr.order_a][tr.ray]]
    /\ UNCHANGED << cfg, exit_req, tasks, image, writes, writer, oob, progress_total,
                    progress_poisoned, progress_log, total_stats, render_state, last >>

\* trace_ray with the surface list in order_b
TraceB ==
    /\ tr.pc = "a"
    /\ tr' = [tr EXCEPT !.pc = "done", !.b = TraceTable[tr.order_b][tr.ray]]
    /\ UNCHANGED << cfg, exit_req, tasks, image, writes, writer, oob, progress_total,
                    progress_poisoned, progress_log, total_stats, render_state, last >>

NextTrace == TraceA \/ TraceB

SpecTrace == InitTrace /\ [][NextTrace]_vars

(***************************************************************************)
(* Properties.  Helper definitions first.                                  *)
(***************************************************************************)
\* every pixel of task v's tile (or row) has been written once
TileFull(v) == \A p \in TaskPixels(cfg, v) : writes[p] = 1

\* no pixel of task v's tile (or row) has been written: initial fill
TileEmpty(v) == \A p \in TaskPixels(cfg, v) : writes[p] = 0 /\ image[p] = RGBNew

\* the sum of one counter over the local stats of the tasks in S
RECURSIVE SumField(_, _)
SumField(S, f) ==
    IF S = {} THEN 0
    ELSE LET v == CHOOSE w \in S : TRUE
         IN  tasks[v].stats[f] + SumField(S \ {v}, f)

\* the tasks whose stats were due to be merged: they rendered and finished
Executed == {v \in Tasks(cfg) : tasks[v].pc = "done" /\ ~tasks[v].skipped}

\* the tasks that finished their report_progress call
Reported == {v \in Tasks(cfg) : tasks[v].pc \in {"add", "done"}}

\* the number of image pixels that belong to the tasks in S
PixelCount(S) == Cardinality(UNION {TaskPixels(cfg, v) : v \in S})

\* the task whose tile (or row) holds pixel p
TaskOf(c, p) == CHOOSE v \in Tasks(c) : p \in TaskPixels(c, v)

\* one fixed choice among the values a sampler call may draw
FirstDraw(c) == CHOOSE d \in DrawsOf(c) : TRUE

\* the image of one reference render of each configuration, every sampler
\* call of which drew FirstDraw
RefImage ==
    [c \in Configs |->
       [p \in Pixels(c) |-> SampleTable[c][TaskOf(c, p)][p][FirstDraw(c)].c]]

\* the colour of the ray through the centre (pos_u + du / 2, pos_v + dv / 2)
\* of each pixel's box, for the configurations without path tracing
WhittedImage ==
    [c \in {k \in Configs : ~(k.path_tracing > 1)} |->
       [p \in Pixels(c) |->
          trace_primary_ray(Scene(c.res_x, c.res_y), ZeroStats,
                            Rat(c.res_x - 2 * (p % c.res_x) + 1, 2 * c.res_x),
                            Rat(c.res_y - 2 * (p \div c.res_x) + 1, 2 * c.res_y)).c]]

\* the colour of each pixel of the path-traced configurations as a function
\* of the values its sampler call drew
PathColour ==
    [c \in {k \in Configs : k.path_tracing > 1} |->
       [p \in Pixels(c) |->
          [d \in Draws(c.path_tracing) |->
             render_pixel(Scene(c.res_x, c.res_y), c, ZeroStats, d,
                          p % c.res_x, p \div c.res_x).c]]]

\* the surfaces of TraceObjects that, tested alone, are hit by ray at t
TiedAt(ray, t) ==
    {i \in 1 .. Len(TraceObjects) :
       LET r == intercept(TraceObjects[i], ZeroStats, ray, EPSILON, FloatMax, FALSE, 0)
       IN  r.hit /\ RCmp(r.tmax, t) = 0}

(***************************************************************************)
(* The properties of the renderer, by number.                              *)
(***************************************************************************)
\* C1: in a render that is not cancelled every pixel of the image is written
\* by push_pixel exactly once, by one task, and no push_pixel is issued for
\* a coordinate outside the image.
C1_PixelsWrittenOnce ==
    /\ ~oob
    /\ \A p \in Pixels(cfg) : writes[p] <= 1
    /\ (render_state # "running" /\ ~exit_req) =>
           \A p \in Pixels(cfg) : writes[p] = 1 /\ writer[p] \in Tasks(cfg)

\* C2: a task that observed the exit flag set has written no pixel, traced
\* no ray and merged no stats, and calls report_progress once, with the
\* count a rendering task reports.
C2_SkippedTaskOnlyReports ==
    \A v \in Tasks(cfg) :
       tasks[v].skipped =>
          /\ \A p \in Pixels(cfg) : writer[p] # v
          /\ tasks[v].stats = ZeroStats
          /\ tasks[v].merged = 0
          /\ Len(tasks[v].reports) <= 1
          /\ tasks[v].pc \in {"done", "panicked"} =>
                 tasks[v].reports = << DoneProgress(cfg) >>

C2_Witness ==
    /\ \E v \in Tasks(cfg) : tasks[v].skipped /\ tasks[v].pc = "done"
    /\ \E w \in Tasks(cfg) : tasks[w].merged = 1

\* C3: the exit flag is read once per task, before any work: a task past its
\* pixel loop has written all of its tile if it read the flag as false and
\* none of it if it read it as true, so when render_scene returns every tile
\* is completely written or completely in the initial fill.
C3_TilesAllOrNothing ==
    /\ \A v \in Tasks(cfg) :
          tasks[v].pc \in {"report", "add", "done"} =>
             IF tasks[v].skipped THEN TileEmpty(v) ELSE TileFull(v)
    /\ render_state = "returned" =>
          \A v \in Tasks(cfg) : TileFull(v) \/ TileEmpty(v)

C3_Witness ==
    /\ render_state = "returned"
    /\ exit_req
    /\ \E v \in Tasks(cfg) : ~tasks[v].skipped /\ TileFull(v)
    /\ \E w \in Tasks(cfg) : tasks[w].skipped /\ TileEmpty(w)

\* C4: in every run of render_scene over a non-empty image, once the run
\* is over the progress callback has been invoked with the value 1.0.
C4_ProgressReachesOne ==
    render_state # "running" =>
       \E i \in 1 .. Len(progress_log) : progress_log[i].n = progress_log[i].d

\* C5: the values passed to the progress callback lie in [0, 1] and are
\* non-decreasing, under every interleaving.
C5_ProgressMonotone ==
    \A i \in 1 .. Len(progress_log) :
       /\ 0 <= progress_log[i].n
       /\ progress_log[i].n <= progress_log[i].d
       /\ i > 1 => progress_log[i - 1].n * progress_log[i].d
                      <= progress_log[i].n * progress_log[i - 1].d

C5_Witness ==
    /\ Len(progress_log) >= 2
    /\ progress_log[1].n * progress_log[2].d < progress_log[2].n * progress_log[1].d

\* C6: the progress counter equals the number of image pixels that belong
\* to the tasks that have finished, and res_x * res_y after the last task.
C6_ProgressCountsPixels ==
    /\ progress_total = PixelCount(Reported)
    /\ render_state = "returned" => progress_total = cfg.res_x * cfg.res_y

\* C7: total_stats is the component-wise sum of the local counters of the
\* tasks that executed their work and finished; no task's counters are
\* added twice, and after render_scene returns those of every task that was
\* not skipped have been added once.
C7_TotalStatsIsSum ==
    /\ total_stats = [f \in StatFields |-> SumField(Executed, f)]
    /\ \A v \in Tasks(cfg) : tasks[v].merged <= 1
    /\ render_state = "returned" =>
          \A v \in Tasks(cfg) : tasks[v].merged = IF tasks[v].skipped THEN 0 ELSE 1

C7_Witness ==
    /\ render_state = "returned"
    /\ Cardinality(Executed) >= 2
    /\ \A f \in {"num_rays_sampling", "num_intersects_plane", "num_intersects_triangle"} :
          total_stats[f] > 0

MeshFaces ==
    << << << Vec(0, 0, 0), Vec(4, 0, 4), Vec(0, 4, 4) >> >>,
       << << Vec(0, 0, 1), Vec(3, 0, 1), Vec(0, 3, 1) >>,
          << Vec(8, 8, 7), Vec(5, 8, 7), Vec(8, 5, 7) >> >>,
       << << Vec(0, 0, 6), Vec(8, 0, 6), Vec(0, 8, 6) >>,
          << Vec(0, 0, 2), Vec(3, 0, 2), Vec(0, 3, 2) >>,
          << Vec(8, 8, 8), Vec(8, 5, 8), Vec(5, 8, 8) >> >> >>

MeshTriangles == [m \in 1 .. Len(MeshFaces) |-> load_triangles(MeshFaces[m], 1, 1, << >>)]

Meshes == [m \in 1 .. Len(MeshTriangles) |-> Mesh(MeshTriangles[m], 1)]

MeshOrigins ==
    {Vec(1, 1, -2), Vec(1, 1, 3), Vec(1, 1, 10), Vec(7, 7, 10), Vec(-2, 1, 1),
     Vec(-1, -1, -1)}

MeshDirs ==
    {Vec(0, 0, 1), Vec(0, 0, -1), Vec(1, 0, 0), Vec(1, 1, 1), Vec(1, 1, 2),
     Vec(-1, -1, -2)}

MeshRays == { Ray(o, 1, d, 1) : o \in MeshOrigins, d \in MeshDirs }

MeshTmax == {FloatMax, Rat(5, 1)}

\* what a caller of intercept sees: the flag, *tmax and *oid
Seen(r) == [hit |-> r.hit, tmax |-> r.tmax, oid |-> r.oid, panic |-> r.panic]

NoSeen == [hit |-> FALSE, tmax |-> FloatMax, oid |-> 0, panic |-> FALSE]

MeshTable ==
    [m \in 1 .. Len(MeshTriangles) |->
       [ray \in MeshRays |->
          [t \in MeshTmax |->
             [a |-> Seen(MeshIntercept(Meshes[m], ZeroStats, ray, EPSILON, t, FALSE, 0)),
              b |-> Seen(ScanAll(Meshes[m], ZeroStats, ray, EPSILON, t, FALSE, 0))]]]]

InitMesh ==
    /\ InitJob(Cfg(2, 3, FALSE, 1))
    /\ tr \in { [pc |-> "start", mesh |-> m, ray |-> ray, tmax |-> t, a |-> NoSeen,
                  b |-> NoSeen] :
                  m \in 1 .. Len(MeshTriangles), ray \in MeshRays, t \in MeshTmax }

\* Mesh::intercept with any = false
MeshWalk ==
    /\ tr.pc = "start"
    /\ tr' = [tr EXCEPT !.pc = "a", !.a = MeshTable[tr.mesh][tr.ray][tr.tmax].a]
    /\ UNCHANGED << cfg, exit_req, tasks, image, writes, writer, oob, progress_total,
                    progress_poisoned, progress_log, total_stats, render_state, last >>

\* every triangle of the mesh tested with the same tmin and tmax
MeshScan ==
    /\ tr.pc = "a"
    /\ tr' = [tr EXCEPT !.pc = "done", !.b = MeshTable[tr.mesh][tr.ray][tr.tmax].b]
    /\ UNCHANGED << cfg, exit_req, tasks, image, writes, writer, oob, progress_total,
                    progress_poisoned, progress_log, total_stats, render_state, last >>

NextMesh == MeshWalk \/ MeshScan

SpecMesh == InitMesh /\ [][NextMesh]_vars

\* C11, as stated: for any mesh and any ray, the octree traversal reports a
\* hit iff testing every triangle of the mesh with the same tmin and tmax
\* finds one, and on a hit tmax and sub_id are those of the triangle with
\* the smallest hit parameter.
C11_OctreeMatchesScan ==
    tr.pc = "done" =>
       /\ ~tr.a.panic
       /\ tr.a.hit = tr.b.hit
       /\ tr.a.hit => (tr.a.tmax = tr.b.tmax /\ tr.a.oid = tr.b.oid)

(***************************************************************************)
(* The recursion of trace_ray and trace_ray_path on its own: a hall of two *)
(* facing mirrors (z = 10 and z = -10) closed on one side by a diffuse     *)
(* wall (x = 15), nothing emissive, traced from the camera at the origin.  *)
(***************************************************************************)
DepthMaterials ==
    << Material(RGB((8 * RGBUnit) \div 10, (8 * RGBUnit) \div 10, (6 * RGBUnit) \div 10),
                RGBUnit \div 10, RGBNew),
       Material(RGB(RGBUnit \div 2, RGBUnit \div 5, RGBUnit \div 5), 0, RGBNew) >>

DepthObjects ==
    << Plane(Vec(0, 0, 10), [v |-> Vec(0, 0, -1), den |-> 1], 0),
       Plane(Vec(0, 0, -10), [v |-> Vec(0, 0, 1), den |-> 1], 0),
       Plane(Vec(15, 0, 0), [v |-> Vec(-1, 0, 0), den |-> 1], 1) >>

DepthScene ==
    [Scene(13, 10) EXCEPT !.objects = DepthObjects, !.materials = DepthMaterials]

\* the depths a call is made with: a primary ray, the last level that still
\* tests, and the two levels beyond the limit
Depths == {0, ReflectionMaxDepth, ReflectionMaxDepth + 1, ReflectionMaxDepth + 2}

\* the colour and the counters of one call, in Whitted and in path mode
DepthCall(mode, ray, depth, seed) ==
    IF mode = "whitted" THEN Traced(trace_ray(DepthScene, ZeroStats, ray, depth))
    ELSE Traced(trace_ray_path(DepthScene, ZeroStats, seed, ray, depth))

DepthTable ==
    [mode \in {"whitted", "path"} |->
       [ray \in TraceRays |->
          [depth \in Depths |-> [seed \in Seeds |-> DepthCall(mode, ray, depth, seed)]]]]

InitDepth ==
    /\ InitJob(Cfg(2, 3, FALSE, 1))
    /\ tr \in { [pc |-> "start", mode |-> mode, ray |-> ray, depth |-> depth,
                  seed |-> seed, res |-> [c |-> RGBNew, stats |-> ZeroStats]] :
                  mode \in {"whitted", "path"}, ray \in TraceRays, depth \in Depths,
                  seed \in Seeds }

\* one call of trace_ray or trace_ray_path with fresh counters
TraceCall ==
    /\ tr.pc = "start"
    /\ tr' = [tr EXCEPT !.pc = "done",
                        !.res = DepthTable[tr.mode][tr.ray][tr.depth][tr.seed]]
    /\ UNCHANGED << cfg, exit_req, tasks, image, writes, writer, oob, progress_total,
                    progress_poisoned, progress_log, total_stats, render_state, last >>

NextDepth == TraceCall

SpecDepth == InitDepth /\ [][NextDepth]_vars

\* C12: a call with depth > reflection_max_depth returns zero radiance and
\* changes the counters by num_rays_reflection_max + 1 alone (no intersection
\* test); a call at depth 0 issues at most reflection_max_depth + 1
\* continuation rays, one per level, so at most reflection_max_depth + 2
\* nested calls, of which at most one (the last) is beyond the limit, and
\* every call within the limit tests each surface once.  In both modes.
C12_DepthBounded ==
    tr.pc = "done" =>
       /\ tr.depth > DepthScene.reflection_max_depth =>
             /\ tr.res.c = RGBNew
             /\ tr.res.stats = StatInc(ZeroStats, "num_rays_reflection_max")
       /\ tr.depth = 0 =>
             /\ tr.res.stats.num_rays_reflection <= DepthScene.reflection_max_depth + 1
             /\ tr.res.stats.num_rays_reflection_max <= 1
             /\ tr.res.stats.num_rays_reflection_max = 1 <=>
                   tr.res.stats.num_rays_reflection
                      = DepthScene.reflection_max_depth + 1
             /\ tr.res.stats.num_intersects_plane
                   = Len(DepthObjects) * (1 + tr.res.stats.num_rays_reflection
                                            - tr.res.stats.num_rays_reflection_max)

\* a primary ray whose recursion runs into the limit, in path mode
C12_Witness ==
    /\ tr.pc = "done"
    /\ tr.depth = 0
    /\ tr.mode = "path"
    /\ tr.res.stats.num_rays_reflection_max = 1
    /\ tr.res.stats.num_rays_reflection = DepthScene.reflection_max_depth + 1

(***************************************************************************)
(* The adaptive sampler (render.rs): calc_ray_box with                     *)
(* use_adaptive_sampling = true, and trace_primary_ray with its per-tile   *)
(* map.  The sampler's state is acc = [stats, pmap, boxes, rays, asked]:   *)
(* the counters and the map of the program, and three records kept for the *)
(* properties: the boxes calc_ray_box finished, the (u, v) handed to       *)
(* Camera::get_ray, and the (u, v) each key of the map was stored for.     *)
(***************************************************************************)
\* app.rs: adaptive_max_depth: 2
AdaptiveMaxDepth == 2

\* the scale of the map's key, 1e6 in trace_primary_ray: kept small here
KeyScale == 4

RAdd(a, b) == Rat(a.n * b.d + b.n * a.d, a.d * b.d)

RHalf(a) == Rat(a.n, 2 * a.d)

\* RGB::distance2: the largest component distance
distance2(self, rhs) ==
    Max(Abs(self.b - rhs.b), Max(Abs(self.r - rhs.r), Abs(self.g - rhs.g)))

\* (c00 + c01 + c10 + c11) * 0.25
Quarter(c00, c01, c10, c11) == RGBDiv(RGBAdd(RGBAdd(RGBAdd(c00, c01), c10), c11), 4)

\* RGB::difference as it would be with the distance of c00 alone
difference_first(c00, c01, c10, c11) == distance2(Quarter(c00, c01, c10, c11), c00)

\* RGB::difference: the distances of the four colours from their average
difference(c00, c01, c10, c11) ==
    distance2(Quarter(c00, c01, c10, c11), c00) + distance2(Quarter(c00, c01, c10, c11), c01)
    + distance2(Quarter(c00, c01, c10, c11), c10) + distance2(Quarter(c00, c01, c10, c11), c11)

\* key = (1e12 * (u as f64 + 0.5) + 1e6 * (v as f64 + 0.5)) as u64:
\* the cast truncates, and takes a negative value to 0
MemoKey(u, v) ==
    Max(0, (KeyScale * KeyScale * (2 * u.n + u.d) * v.d + KeyScale * (2 * v.n + v.d) * u.d)
              \div (2 * u.d * v.d))

EmptyMap == [k \in {} |-> RGBNew]

\* HashMap::insert
MapInsert(pmap, key, val) ==
    [k \in DOMAIN pmap \cup {key} |-> IF k = key THEN val ELSE pmap[k]]

NewAcc(stats) ==
    [stats |-> stats, pmap |-> EmptyMap, boxes |-> << >>, rays |-> << >>,
     asked |-> EmptyMap, clash |-> FALSE]

\* the part of trace_primary_ray after the lookup: the ray is traced and,
\* with use_hashmap && use_adaptive_sampling, its colour stored under key
PrimaryTraced(config, acc, u, v, r) ==
    [c |-> r.c,
     acc |-> [acc EXCEPT
                !.stats = r.stats,
                !.pmap = IF config.use_hashmap /\ config.use_adaptive_sampling
                         THEN MapInsert(acc.pmap, MemoKey(u, v), r.c) ELSE @,
                !.asked = IF config.use_hashmap /\ config.use_adaptive_sampling
                          THEN MapInsert(acc.asked, MemoKey(u, v), << u, v >>) ELSE @,
                !.rays = Append(@, << u, v >>)]]

\* trace_primary_ray with the map: [c, acc]
trace_primary_ray_memo(scene, config, acc, u, v) ==
    IF config.use_hashmap /\ config.use_adaptive_sampling
       /\ MemoKey(u, v) \in DOMAIN acc.pmap
    THEN [c |-> acc.pmap[MemoKey(u, v)],
          acc |-> [acc EXCEPT !.clash = @ \/ acc.asked[MemoKey(u, v)] # << u, v >>]]
    ELSE PrimaryTraced(config, acc, u, v, trace_primary_ray(scene, acc.stats, u, v))

\* the calls of trace_primary_ray for the corners pts in turn, cs the colours
\* so far: [cs, acc]
RECURSIVE CornerFold(_, _, _, _, _)

CornerStep(scene, config, pts, cs, r) ==
    CornerFold(scene, config, r.acc, pts, Append(cs, r.c))

CornerFold(scene, config, acc, pts, cs) ==
    IF Len(cs) = Len(pts) THEN [cs |-> cs, acc |-> acc]
    ELSE CornerStep(scene, config, pts, cs,
                    trace_primary_ray_memo(scene, config, acc, pts[Len(cs) + 1][1],
                                           pts[Len(cs) + 1][2]))

\* the corners (pos_u, pos_v), (pos_u, pos_v + dv), (pos_u + du, pos_v),
\* (pos_u + du, pos_v + dv) of a box, in the order c00, c01, c10, c11
Corners(pos_u, pos_v, du, dv) ==
    << << pos_u, pos_v >>, << pos_u, RAdd(pos_v, dv) >>, << RAdd(pos_u, du), pos_v >>,
       << RAdd(pos_u, du), RAdd(pos_v, dv) >> >>

RECURSIVE calc_ray_box_adaptive(_, _, _, _, _, _, _, _)

\* the calls of calc_ray_box for the sub-boxes at pts in turn: [cs, acc]
RECURSIVE QuadFold(_, _, _, _, _, _, _, _)

QuadStep(scene, config, pts, du2, dv2, lvl, cs, r) ==
    QuadFold(scene, config, r.acc, pts, du2, dv2, lvl, Append(cs, r.c))

QuadFold(scene, config, acc, pts, du2, dv2, lvl, cs) ==
    IF Len(cs) = Len(pts) THEN [cs |-> cs, acc |-> acc]
    ELSE QuadStep(scene, config, pts, du2, dv2, lvl, cs,
                  calc_ray_box_adaptive(scene, config, acc, pts[Len(cs) + 1][1],
                                        pts[Len(cs) + 1][2], du2, dv2, lvl))

\* the end of calc_ray_box: (c00 + c01 + c10 + c11) * 0.25 of the colours q;
\* the box is recorded with its level, the colours of its corners and
\* whether it was subdivided
BoxEnd(acc, lvl, corners, split, q) ==
    [c |-> Quarter(q[1], q[2], q[3], q[4]),
     acc |-> [acc EXCEPT !.boxes = Append(@, [lvl |-> lvl, corners |-> corners,
                                              split |-> split,
                                              c |-> Quarter(q[1], q[2], q[3], q[4])])]]

\* the sub-boxes of a box whose corners differ, s their colours and state
BoxSplit(lvl, corners, s) == BoxEnd(s.acc, lvl, corners, TRUE, s.cs)

\* calc_ray_box after its four corner rays k = [cs, acc]:
\*   if lvl < adaptive_max_depth { if difference(..) > 0.3 { four sub-boxes } }
\*   else { stats.num_rays_sampling_max += 1 }
BoxDecide(scene, config, pos_u, pos_v, du, dv, lvl, k) ==
    IF lvl < config.adaptive_max_depth
    THEN IF difference(k.cs[1], k.cs[2], k.cs[3], k.cs[4]) > (3 * RGBUnit) \div 10
         THEN BoxSplit(lvl, k.cs,
                       QuadFold(scene, config, k.acc,
                                Corners(pos_u, pos_v, RHalf(du), RHalf(dv)),
                                RHalf(du), RHalf(dv), lvl + 1, << >>))
         ELSE BoxEnd(k.acc, lvl, k.cs, FALSE, k.cs)
    ELSE BoxEnd([k.acc EXCEPT !.stats = StatInc(@, "num_rays_sampling_max")], lvl, k.cs,
                FALSE, k.cs)

\* calc_ray_box with use_adaptive_sampling = true: [c, acc]
calc_ray_box_adaptive(scene, config, acc, pos_u, pos_v, du, dv, lvl) ==
    BoxDecide(scene, config, pos_u, pos_v, du, dv, lvl,
              CornerFold(scene, config, acc, Corners(pos_u, pos_v, du, dv), << >>))

\* calc_ray_box: one ray through the centre of the box without adaptive
\* sampling, the four corners and their subdivision with it
calc_ray_box_any(scene, config, acc, pos_u, pos_v, du, dv, lvl) ==
    IF ~config.use_adaptive_sampling
    THEN trace_primary_ray_memo(scene, config, acc, RAddHalf(pos_u, du),
                                RAddHalf(pos_v, dv))
    ELSE calc_ray_box_adaptive(scene, config, acc, pos_u, pos_v, du, dv, lvl)

(***************************************************************************)
(* One tile rendered pixel by pixel (render_pixel_box with path_tracing    *)
(* <= 1), twice side by side: with use_hashmap = true (on) and with        *)
(* use_hashmap = false (off).  The scene is the wall with a large diffuse  *)
(* triangle in front of it, whose edges cross the pixels.                  *)
(***************************************************************************)
BoxObjects ==
    << Plane(Vec(30, 0, 0), [v |-> Vec(-4, 0, -3), den |-> 5], 0),
       Triangle(Vec(-2, -3, 20), Vec(9, -3, 20), Vec(-2, 6, 20), 1) >>

BoxScene(res_x, res_y) == [Scene(res_x, res_y) EXCEPT !.objects = BoxObjects]

BoxCfg(res_x, res_y, use_adaptive_sampling, adaptive_max_depth, use_hashmap) ==
    [res_x |-> res_x, res_y |-> res_y, use_lines |-> FALSE, path_tracing |-> 1,
     use_adaptive_sampling |-> use_adaptive_sampling,
     adaptive_max_depth |-> adaptive_max_depth, use_hashmap |-> use_hashmap]

BoxConfigs ==
    { BoxCfg(4, 3, TRUE, d, TRUE) : d \in 0 .. AdaptiveMaxDepth }
    \cup { BoxCfg(5, 4, TRUE, d, TRUE) : d \in 0 .. AdaptiveMaxDepth }
    \cup { BoxCfg(4, 3, FALSE, AdaptiveMaxDepth, TRUE) }

\* the state of the sampler at the start of a pixel: the counters and the
\* map of the tile are kept, the records of the last pixel dropped
NextPixelAcc(acc) == [acc EXCEPT !.boxes = << >>, !.rays = << >>]

\* the pixel loop's body for (x, y): calc_ray_box(stats, &mut pmap, pos_u,
\* pos_v, du, dv, 0) with pos_u = 1/2 - x * du, pos_v = 1/2 - y * dv
BoxPixelAt(config, acc, x, y) ==
    calc_ray_box_any(BoxScene(config.res_x, config.res_y), config, NextPixelAcc(acc),
                     Rat(config.res_x - 2 * x, 2 * config.res_x),
                     Rat(config.res_y - 2 * y, 2 * config.res_y),
                     Rat(1, config.res_x), Rat(1, config.res_y), 0)

InitBox ==
    /\ InitJob(Cfg(2, 3, FALSE, 1))
    /\ tr \in { [pc |-> "pixel", conf |-> c, x |-> 0, y |-> 0, px |-> -1, py |-> -1,
                  on |-> [c |-> RGBNew, acc |-> NewAcc(ZeroStats)],
                  off |-> [c |-> RGBNew, acc |-> NewAcc(ZeroStats)],
                  path |-> << >>, max_before |-> 0] : c \in BoxConfigs }

\* the (u, v) that calc_ray_box_path hands to get_ray for the pixel (x, y):
\* pos_u + off_u and pos_v + off_v of each sample
PathRays(config, rng, x, y) ==
    [i \in 1 .. Len(rng.ku) |->
        << ROff(Rat(config.res_x - 2 * x, 2 * config.res_x), Rat(1, config.res_x),
                rng.ku[i]),
           ROff(Rat(config.res_y - 2 * y, 2 * config.res_y), Rat(1, config.res_y),
                rng.kv[i]) >>]

\* one pixel of the tile, in the render with the map and in the one without,
\* and the samples a path render draws for it
BoxPixel ==
    /\ tr.pc = "pixel"
    /\ \E draws \in Draws(2) :
       tr' = [tr EXCEPT
                !.path = PathRays(tr.conf, draws, tr.x, tr.y),
                !.on = BoxPixelAt(tr.conf, tr.on.acc, tr.x, tr.y),
                !.off = BoxPixelAt([tr.conf EXCEPT !.use_hashmap = FALSE], tr.off.acc,
                                   tr.x, tr.y),
                !.max_before = tr.off.acc.stats.num_rays_sampling_max,
                !.px = tr.x, !.py = tr.y,
                !.x = IF tr.x + 1 < tr.conf.res_x THEN tr.x + 1 ELSE 0,
                !.y = IF tr.x + 1 < tr.conf.res_x THEN tr.y ELSE tr.y + 1,
                !.pc = IF tr.x + 1 < tr.conf.res_x \/ tr.y + 1 < tr.conf.res_y
                       THEN "pixel" ELSE "done"]
    /\ UNCHANGED << cfg, exit_req, tasks, image, writes, writer, oob, progress_total,
                    progress_poisoned, progress_log, total_stats, render_state, last >>

NextBox == BoxPixel

SpecBox == InitBox /\ [][NextBox]_vars

\* the colour difference of four corners: the distances (largest component)
\* of each from their average, summed
CornerDifference(q) ==
    LET avg == RGB((q[1].r + q[2].r + q[3].r + q[4].r) \div 4,
                   (q[1].g + q[2].g + q[3].g + q[4].g) \div 4,
                   (q[1].b + q[2].b + q[3].b + q[4].b) \div 4)
        far(c) == Max(Max(Abs(avg.r - c.r), Abs(avg.g - c.g)), Abs(avg.b - c.b))
    IN  far(q[1]) + far(q[2]) + far(q[3]) + far(q[4])

\* the boxes a pixel can have at most: 1 + 4 + ... + 4^d
RECURSIVE MaxBoxes(_)
MaxBoxes(d) == IF d = 0 THEN 1 ELSE 1 + 4 * MaxBoxes(d - 1)

\* the boxes the last pixel finished, in the render without the map
LastBoxes == { tr.off.acc.boxes[i] : i \in 1 .. Len(tr.off.acc.boxes) }

\* C13: in adaptive Whitted sampling a box is subdivided iff the colour
\* difference of its four corners exceeds 0.3 and its level is below
\* adaptive_max_depth; otherwise its result is the average of the four
\* corners; no box is above adaptive_max_depth, and a pixel has at most
\* 1 + 4 + ... + 4^adaptive_max_depth boxes.
C13_SubdivisionBounded ==
    tr.conf.use_adaptive_sampling =>
       /\ \A b \in LastBoxes :
             /\ b.split <=> (CornerDifference(b.corners) > (3 * RGBUnit) \div 10
                               /\ b.lvl < tr.conf.adaptive_max_depth)
             /\ ~b.split => b.c = Quarter(b.corners[1], b.corners[2], b.corners[3],
                                           b.corners[4])
             /\ b.lvl <= tr.conf.adaptive_max_depth
       /\ Len(tr.off.acc.boxes) <= MaxBoxes(tr.conf.adaptive_max_depth)

\* a pixel with a subdivided box, a converged box below the depth limit and
\* a box at the limit whose corners still differ
C13_Witness ==
    /\ tr.conf.use_adaptive_sampling
    /\ \E b \in LastBoxes : b.split
    /\ \E b \in LastBoxes : ~b.split /\ b.lvl < tr.conf.adaptive_max_depth
    /\ \E b \in LastBoxes :
          /\ b.lvl = tr.conf.adaptive_max_depth
          /\ CornerDifference(b.corners) > (3 * RGBUnit) \div 10

\* C14, as stated: num_rays_sampling_max is incremented exactly once for
\* each box at level = adaptive_max_depth whose four corners have not
\* converged (colour difference > 0.3), and not for a converged box.
C14_MaxCounterCountsUnconverged ==
    (tr.conf.use_adaptive_sampling /\ tr.px # -1) =>
       tr.off.acc.stats.num_rays_sampling_max - tr.max_before
          = Cardinality({ i \in 1 .. Len(tr.off.acc.boxes) :
                            /\ tr.off.acc.boxes[i].lvl = tr.conf.adaptive_max_depth
                            /\ CornerDifference(tr.off.acc.boxes[i].corners)
                                  > (3 * RGBUnit) \div 10 })

(***************************************************************************)
(* One call of intercept on a surface of each kind, with the caller's      *)
(* tmin, *tmax and *oid.                                                   *)
(***************************************************************************)
HitSurfaces ==
    << Sphere(Vec(1, 1, 6), 2, 1),
       Plane(Vec(0, 0, 5), [v |-> Vec(0, 0, 1), den |-> 1], 0),
       Triangle(Vec(0, 0, 4), Vec(4, 0, 4), Vec(0, 4, 4), 1),
       Meshes[1], Meshes[2], Meshes[3] >>

HitTmin == {EPSILON, Rat(11, 2), Rat(13, 2)}

HitTmax == {FloatMax, Rat(5, 1), Rat(12, 1)}

HitOid == {0, 7}

\* what the caller sees after the call; only a mesh's walk can panic
HitSeen(obj, r) ==
    [hit |-> r.hit, tmax |-> r.tmax, oid |-> r.oid,
     panic |-> IF obj.kind = "mesh" THEN r.panic ELSE FALSE]

InitHit ==
    /\ InitJob(Cfg(2, 3, FALSE, 1))
    /\ tr \in { [pc |-> "start", obj |-> i, ray |-> ray, tmin |-> t0, tmax |-> t1,
                  any |-> any, oid |-> oid, res |-> NoSeen] :
                  i \in 1 .. Len(HitSurfaces), ray \in MeshRays, t0 \in HitTmin,
                  t1 \in HitTmax, any \in BOOLEAN, oid \in HitOid }

\* obj.intercept(stats, ray, tmin, &mut tmax, any, &mut oid)
Intercept ==
    /\ tr.pc = "start"
    /\ tr' = [tr EXCEPT !.pc = "done",
                        !.res = HitSeen(HitSurfaces[tr.obj],
                                        intercept(HitSurfaces[tr.obj], ZeroStats, tr.ray,
                                                  tr.tmin, tr.tmax, tr.any, tr.oid))]
    /\ UNCHANGED << cfg, exit_req, tasks, image, writes, writer, oob, progress_total,
                    progress_poisoned, progress_log, total_stats, render_state, last >>

NextHit == Intercept

SpecHit == InitHit /\ [][NextHit]_vars

\* the triangle oid of the mesh is hit at the parameter t, between tmin and
\* tmax
TriangleHitAt(mesh, oid, ray, tmin, tmax, t) ==
    /\ oid + 1 \in 1 .. Len(mesh.triangles)
    /\ LET r == TriangleIntercept(mesh.triangles[oid + 1], ZeroStats, ray, tmin, tmax,
                                  FALSE, 0)
       IN  r.hit /\ r.tmax = t

\* C15: when intercept of a sphere, plane, triangle or mesh returns true the
\* new tmax lies strictly between tmin and the old tmax and, for a mesh,
\* sub_id is the index of the triangle hit at the new tmax; when it returns
\* false, tmax and sub_id are unchanged.
C15_InterceptFrame ==
    tr.pc = "done" =>
       /\ tr.res.hit =>
             /\ RLt(tr.tmin, tr.res.tmax)
             /\ RLt(tr.res.tmax, tr.tmax)
             /\ HitSurfaces[tr.obj].kind = "mesh" =>
                   TriangleHitAt(HitSurfaces[tr.obj], tr.res.oid, tr.ray, tr.tmin, tr.tmax,
                                 tr.res.tmax)
       /\ (~tr.res.hit /\ ~tr.res.panic) =>
             tr.res.tmax = tr.tmax /\ tr.res.oid = tr.oid

\* a mesh hit at a triangle other than the first, the caller's sub_id
\* replaced
C15_Witness ==
    /\ tr.pc = "done"
    /\ HitSurfaces[tr.obj].kind = "mesh"
    /\ tr.res.hit
    /\ tr.res.oid > 0
    /\ tr.res.oid # tr.oid
    /\ tr.tmax # FloatMax

\* ------------------------------------------------------------------------
\* scene.rs: loading a scene document
\* ------------------------------------------------------------------------

\* width of the u32 of res_x and res_y (32 in the program): `as u32` keeps
\* the low bits of the u64 read from the document
ResBits == 4

ResMod == 2 ^ ResBits

\* the entries "<name>.0", "<name>.1", .. of the document, by what
\* serde_json::from_value makes of each: "ok" deserialises, "unknown_field"
\* carries a field the struct does not have (no deny_unknown_fields: it
\* deserialises, the field is dropped), "illtyped" is an Err
EntryKinds == {"ok", "unknown_field", "illtyped"}

MaxEntries == 2

EntryLists(n) == UNION { [1 .. k -> EntryKinds] : k \in 0 .. n }

Deserialises(e) == e # "illtyped"

\* loop { match from_value(json["<name>.<n>"]) { Err => break, Ok => push } }:
\* the number of entries pushed; a key past the last one is Null, an Err
RECURSIVE LoadEntries(_, _)
LoadEntries(entries, n) ==
    IF n + 1 \in 1 .. Len(entries) /\ Deserialises(entries[n + 1])
    THEN LoadEntries(entries, n + 1)
    ELSE n

load_materials(json) == LoadEntries(json.materials, 0)

load_planes(json) == LoadEntries(json.planes, 0)

\* the spot-light loop and the ambient light (if let Ok(ambient) = ..)
load_lights(json) ==
    [num_spot_lights |-> LoadEntries(json.spot_lights, 0),
     ambient |-> json.ambient = "ok" \/ json.ambient = "unknown_field"]

\* json["resolution"]: not an array (absent), or an array whose two first
\* elements are u64 numbers (typed) or not
Resolution(declared, typed, w, h) ==
    [declared |-> declared, typed |-> typed, w |-> w, h |-> h]

NoResolution == Resolution(FALSE, FALSE, 0, 0)

\* load_resolution(&mut cfg, &json): the configured resolution afterwards;
\* as_u64().unwrap() panics on an element that is not a u64
load_resolution(config, json) ==
    IF config.res_x = 0 /\ config.res_y = 0
    THEN IF json.resolution.declared
         THEN [panic |-> ~json.resolution.typed,
               res_x |-> json.resolution.w % ResMod,
               res_y |-> json.resolution.h % ResMod]
         ELSE [panic |-> FALSE, res_x |-> config.res_x, res_y |-> config.res_y]
    ELSE [panic |-> FALSE, res_x |-> config.res_x, res_y |-> config.res_y]

\* the scene file: "absent" (is_file() false), "unreadable" (read_to_string
\* is an Err), "malformed" (serde_json::from_str is an Err), or a document
Doc(file, resolution, camera, materials, spot_lights, ambient, planes) ==
    [file |-> file, resolution |-> resolution, camera |-> camera,
     materials |-> materials, spot_lights |-> spot_lights, ambient |-> ambient,
     planes |-> planes]

NoJob == [res_x |-> 0, res_y |-> 0, num_materials |-> 0, num_spot_lights |-> 0,
          ambient |-> FALSE, num_planes |-> 0]

Loaded(outcome, job) == [outcome |-> outcome, job |-> job]

\* load_scene(cfg): Ok(job), Err(..) or a panic
LoadDocument(config, json, res) ==
    IF res.panic THEN Loaded("panic", NoJob)
    ELSE IF json.camera # "ok" /\ json.camera # "unknown_field"
    THEN Loaded("panic", NoJob)
    ELSE Loaded("ok", [res_x |-> res.res_x, res_y |-> res.res_y,
                       num_materials |-> load_materials(json),
                       num_spot_lights |-> load_lights(json).num_spot_lights,
                       ambient |-> load_lights(json).ambient,
                       num_planes |-> load_planes(json)])

load_scene(config, json) ==
    IF json.file = "absent" THEN Loaded("panic", NoJob)
    ELSE IF json.file = "unreadable" \/ json.file = "malformed" THEN Loaded("err", NoJob)
    ELSE LoadDocument(config, json, load_resolution(config, json))

\* the configured resolutions and the documents loaded
ConfiguredRes == {0, 1, 2}

DeclaredRes == {1, 3, ResMod}

Resolutions ==
    {NoResolution, Resolution(TRUE, FALSE, 0, 0)}
        \cup { Resolution(TRUE, TRUE, w, h) : w, h \in DeclaredRes }

NoEntries == << >>

Docs ==
    { Doc(f, NoResolution, "absent", NoEntries, NoEntries, "absent", NoEntries) :
          f \in {"absent", "unreadable", "malformed"} }
        \cup { Doc("json", r, c, m, << >>, a, p) :
                   r \in Resolutions, c \in {"ok", "unknown_field", "illtyped", "absent"},
                   m \in EntryLists(MaxEntries), a \in {"ok", "illtyped", "absent"},
                   p \in EntryLists(1) }
        \cup { Doc("json", r, "ok", << "ok" >>, s, "absent", << "ok" >>) :
                   r \in Resolutions, s \in EntryLists(MaxEntries) }

InitLoad ==
    /\ InitJob(Cfg(2, 3, FALSE, 1))
    /\ tr \in { [pc |-> "start", conf |-> [res_x |-> x, res_y |-> y], doc |-> d,
                 out |-> Loaded("none", NoJob)] :
                  x \in ConfiguredRes, y \in ConfiguredRes, d \in Docs }

\* let res = load_scene(cfg)
LoadScene ==
    /\ tr.pc = "start"
    /\ tr' = [tr EXCEPT !.pc = "done", !.out = load_scene(tr.conf, tr.doc)]
    /\ UNCHANGED << cfg, exit_req, tasks, image, writes, writer, oob, progress_total,
                    progress_poisoned, progress_log, total_stats, render_state, last >>

NextLoad == LoadScene

SpecLoad == InitLoad /\ [][NextLoad]_vars

\* the document declares a two-element numeric resolution that fits the
\* output dimensions
DeclaresResolution(d) ==
    /\ d.file = "json"
    /\ d.resolution.declared
    /\ d.resolution.typed
    /\ d.resolution.w \in 1 .. ResMod - 1
    /\ d.resolution.h \in 1 .. ResMod - 1

\* C16: a configured res_x or res_y of 0 is replaced by the corresponding
\* value of the document's resolution: after loading a scene that declares a
\* resolution neither dimension of the job is 0, whatever combination of zero
\* and non-zero values was configured
C16_ZeroInheritsResolution ==
    (tr.pc = "done" /\ DeclaresResolution(tr.doc) /\ tr.out.outcome = "ok") =>
        /\ tr.out.job.res_x = (IF tr.conf.res_x = 0 THEN tr.doc.resolution.w
                               ELSE tr.conf.res_x)
        /\ tr.out.job.res_y = (IF tr.conf.res_y = 0 THEN tr.doc.resolution.h
                               ELSE tr.conf.res_y)
        /\ tr.out.job.res_x # 0
        /\ tr.out.job.res_y # 0

\* the document has an entry that does not deserialise into its struct or
\* that carries an unknown field
Defective(entries) == \E i \in 1 .. Len(entries) : entries[i] # "ok"

BadEntries(d) ==
    \/ d.camera # "ok"
    \/ d.ambient = "illtyped"
    \/ Defective(d.materials)
    \/ Defective(d.spot_lights)
    \/ Defective(d.planes)
    \/ (d.resolution.declared /\ ~d.resolution.typed)

\* C17: load_scene returns an error, and no job, when the scene file is
\* missing, when the document is malformed, or when an entry has unknown or
\* ill-typed fields; it never panics, and a job it returns holds every entry
\* of the document
C17_LoadErrorsReported ==
    tr.pc = "done" =>
        /\ tr.out.outcome # "panic"
        /\ (tr.doc.file # "json" \/ BadEntries(tr.doc)) => tr.out.outcome = "err"
        /\ tr.out.outcome = "ok" =>
               /\ tr.out.job.num_materials = Len(tr.doc.materials)
               /\ tr.out.job.num_spot_lights = Len(tr.doc.spot_lights)
               /\ tr.out.job.num_planes = Len(tr.doc.planes)

\* the (u, v) handed to get_ray for the last pixel: by the adaptive or
\* non-adaptive sampler, with and without the map, and by the path sampler
LastRays ==
    { tr.on.acc.rays[i] : i \in 1 .. Len(tr.on.acc.rays) }
        \cup { tr.off.acc.rays[i] : i \in 1 .. Len(tr.off.acc.rays) }
        \cup { tr.path[i] : i \in 1 .. Len(tr.path) }

InImagePlane(uv) ==
    /\ RLe(Rat(-1, 2), uv[1]) /\ RLe(uv[1], Rat(1, 2))
    /\ RLe(Rat(-1, 2), uv[2]) /\ RLe(uv[2], Rat(1, 2))

\* C18: for every pixel and in every sampling mode (non-adaptive, adaptive at
\* every level, path) each (u, v) passed to get_ray for a primary ray has
\* -1/2 <= u <= 1/2 and -1/2 <= v <= 1/2
C18_PrimaryRaysInPlane == \A uv \in LastRays : InImagePlane(uv)

\* C19: with adaptive sampling on, the render with the map yields the same
\* colour for every pixel as the render without it: a lookup for a corner
\* (u, v) only returns the colour traced for that same (u, v), no two corner
\* positions of a tile share a key
C19_MemoPreservesImage ==
    tr.conf.use_adaptive_sampling =>
        /\ tr.on.c = tr.off.c
        /\ ~tr.on.acc.clash

\* ------------------------------------------------------------------------
\* a single sphere in front of the camera, no lights
\* ------------------------------------------------------------------------

\* the sphere's material: diffuse or reflecting, emitting nothing
SphereMaterials ==
    << Material(RGB(RGBUnit \div 2, RGBUnit \div 5, RGBUnit \div 5), 0, RGBNew),
       Material(RGB((8 * RGBUnit) \div 10, (8 * RGBUnit) \div 10, (6 * RGBUnit) \div 10),
                RGBUnit \div 10, RGBNew) >>

\* the sphere of radius 3 around (0, 0, 6), seen by the camera at the origin
\* with a square image plane; the render follows one reflection
SphereScene(m) ==
    [Scene(1, 1) EXCEPT
        !.objects = << Sphere(Vec(0, 0, 6), 3, 0) >>,
        !.lights = << >>,
        !.materials = << SphereMaterials[m] >>,
        !.reflection_max_depth = 1]

\* positions (u, v) of the image plane whose primary ray meets the sphere:
\* the rays through the points centre + 3 n for the unit vectors n =
\* (0, 0, -1), (+-1, +-2, -2) / 3, (+-2, +-1, -2) / 3, (0, +-3, -4) / 5 and
\* (+-3, 0, -4) / 5, where hit point, normal and reflection are exact
SphereHitAt ==
    { << Rat(0, 1), Rat(0, 1) >> }
        \cup { << Rat(a, 4), Rat(b, 2) >> : a, b \in {-1, 1} }
        \cup { << Rat(a, 2), Rat(b, 4) >> : a, b \in {-1, 1} }
        \cup { << Rat(0, 1), Rat(b, 2) >> : b \in {-1, 1} }
        \cup { << Rat(a, 2), Rat(0, 1) >> : a \in {-1, 1} }

\* positions whose primary ray passes the sphere
SphereMissAt ==
    { << Rat(a, 2), Rat(b, 2) >> : a, b \in {-1, 1} }
        \cup { << Rat(a, 2), Rat(3 * b, 8) >> : a, b \in {-1, 1} }
        \cup { << Rat(3 * a, 8), Rat(b, 2) >> : a, b \in {-1, 1} }

\* the colour of the primary ray through (u, v): trace_primary_ray in
\* Whitted mode, one sample of calc_ray_box_path in path mode (the pixel is
\* the mean of its samples)
SphereSample(mode, m, seed, uv) ==
    [c |-> IF mode = "path"
           THEN trace_ray_path(SphereScene(m), ZeroStats, seed,
                               get_ray(SphereScene(m).camera, uv[1], uv[2]), 0).c
           ELSE trace_primary_ray(SphereScene(m), ZeroStats, uv[1], uv[2]).c,
     ray |-> get_ray(SphereScene(m).camera, uv[1], uv[2]),
     hit |-> ClosestHit(SphereScene(m).objects, ZeroStats,
                        get_ray(SphereScene(m).camera, uv[1], uv[2]))]

NoSample == [c |-> RGBNew, ray |-> Ray(Vec(0, 0, 0), 1, Vec(0, 0, 1), 1),
             hit |-> [hit_obj |-> 0, t |-> FloatMax, s_id |-> 0, stats |-> ZeroStats]]

InitSphere ==
    /\ InitJob(Cfg(2, 3, FALSE, 1))
    /\ tr \in { [pc |-> "start", mode |-> mode, m |-> m, seed |-> seed, uv |-> uv,
                 res |-> NoSample] :
                  mode \in {"whitted", "path"}, m \in 1 .. Len(SphereMaterials),
                  seed \in Seeds, uv \in SphereHitAt \cup SphereMissAt }

\* one primary ray of the render
SphereRay ==
    /\ tr.pc = "start"
    /\ tr' = [tr EXCEPT !.pc = "done",
                        !.res = SphereSample(tr.mode, tr.m, tr.seed, tr.uv)]
    /\ UNCHANGED << cfg, exit_req, tasks, image, writes, writer, oob, progress_total,
                    progress_poisoned, progress_log, total_stats, render_state, last >>

NextSphere == SphereRay

SpecSphere == InitSphere /\ [][NextSphere]_vars

RayHits == tr.res.hit.hit_obj # 0

\* the mirror reflection of the primary ray at its hit
ReflectionAt(m, ray, h) ==
    get_reflection(ray, PointAt(ray, h.t),
                   get_normal(SphereScene(m).objects[h.hit_obj], PointAt(ray, h.t), h.s_id))

I32Max == 2147483647

U32MaxBy100 == 42949672

\* the calls report_progress(v) of one render in turn: the total so far, and
\* whether a division by zero or an overflow has happened
NoProgress == [total |-> 0, div0 |-> FALSE, overflow |-> FALSE, called |-> FALSE]

\* one call of report_progress(v) with *total = total: the new total; div0
\* when denom / 128 is 0 (div_euclid panics), overflow when a cast or the
\* multiplication by 100 leaves its type, called when the callback is invoked:
\* let d = before != after
\*         || 100 * (denom as i32 - *total as i32).unsigned_abs() / denom < 1;
report_progress(c, total, v) ==
    IF (c.res_x * c.res_y) \div 128 = 0
    THEN [total |-> total, div0 |-> TRUE, overflow |-> FALSE, called |-> FALSE]
    ELSE [total |-> total + v,
          div0 |-> FALSE,
          overflow |-> \/ c.res_x * c.res_y > I32Max
                       \/ total + v > I32Max
                       \/ Abs(c.res_x * c.res_y - (total + v)) > U32MaxBy100,
          called |-> ProgressDue(total, total + v, c.res_x * c.res_y)]

\* the resolutions of the renders: the smallest images, the sizes around
\* 128 pixels, the viewer's smallest and largest
ProgressConfigs ==
    { Cfg(x, y, lines, 1) :
        x \in {1, 8, 16, 2048}, y \in {1, 8, 15, 32, 2048}, lines \in BOOLEAN }
        \cup { Cfg(2048, 2048, FALSE, 2), Cfg(11, 11, FALSE, 2), Cfg(32, 32, FALSE, 2) }

InitProgress ==
    /\ InitJob(Cfg(2, 3, FALSE, 1))
    /\ tr \in { [pc |-> "run", conf |-> c, left |-> NumTasks(c), res |-> NoProgress] :
                  c \in ProgressConfigs }

\* the next task of the render reports its pixels
TaskReports ==
    /\ tr.pc = "run"
    /\ tr.left > 0
    /\ LET r == report_progress(tr.conf, tr.res.total, DoneProgress(tr.conf))
       IN  tr' = [tr EXCEPT !.res = r,
                            !.left = IF r.div0 THEN 0 ELSE tr.left - 1,
                            !.pc = IF r.div0 \/ tr.left = 1 THEN "done" ELSE "run"]
    /\ UNCHANGED << cfg, exit_req, tasks, image, writes, writer, oob, progress_total,
                    progress_poisoned, progress_log, total_stats, render_state, last >>

NextProgress == TaskReports

SpecProgress == InitProgress /\ [][NextProgress]_vars

\* C23: report_progress never divides by zero and its integer arithmetic
\* never overflows, for every resolution from 1x1 to 2048x2048, in row mode
\* and in tile mode
C23_ProgressArithmeticSafe == ~tr.res.div0 /\ ~tr.res.overflow

\* ------------------------------------------------------------------------
\* scene.rs: the material indices of the loaded objects
\* ------------------------------------------------------------------------

\* the largest number of "material.<n>" entries, and of objects, of a document
MaxMaterials == 2

MaxObjects == 2

\* an object entry of the document: "plane.<n>", "sphere.<n>" or
\* "triangle.<n>" with its material_id field, or "obj.<n>.path" naming a
\* mesh file whose material library holds mtl materials and whose model
\* refers to the material mesh_material of it (-1: to none)
ObjectEntry(kind, material_id, mtl, mesh_material) ==
    [kind |-> kind, material_id |-> material_id, mtl |-> mtl,
     mesh_material |-> mesh_material]

ObjectEntries ==
    { ObjectEntry(k, id, 0, -1) : k \in {"plane", "sphere", "triangle"},
                                  id \in 0 .. MaxMaterials }
        \cup { ObjectEntry("mesh", 0, 0, -1), ObjectEntry("mesh", 0, 1, -1),
               ObjectEntry("mesh", 0, 1, 0) }

ObjectLists == UNION { [1 .. k -> ObjectEntries] : k \in 1 .. MaxObjects }

\* load_mesh: scene.materials.push(..) for each material of the mesh file
RECURSIVE MeshMaterials(_, _)
MeshMaterials(entries, i) ==
    IF i > Len(entries) THEN 0
    ELSE (IF entries[i].kind = "mesh" THEN entries[i].mtl ELSE 0)
             + MeshMaterials(entries, i + 1)

\* the object pushed for an entry: serde fills material_id from the
\* document; load_mesh pushes Mesh::new(triangles, 0)
LoadedObject(e) ==
    [kind |-> e.kind, material_id |-> IF e.kind = "mesh" THEN 0 ELSE e.material_id]

\* the job of load_scene for a well-formed document with num_materials
\* "material.<n>" entries and the object entries: its materials and objects
LoadJob(num_materials, entries) ==
    [num_materials |-> num_materials + MeshMaterials(entries, 1),
     objects |-> [i \in 1 .. Len(entries) |-> LoadedObject(entries[i])]]

\* let hit_material = &self.materials[hit_mat_id]: the index, or a panic
MaterialLookup(job, hit_obj) ==
    IF get_material_id(hit_obj) < job.num_materials THEN "ok" ELSE "panic"

NoLoadJob == [num_materials |-> 0, objects |-> << >>]

InitMaterial ==
    /\ InitJob(Cfg(2, 3, FALSE, 1))
    /\ tr \in { [pc |-> "start", num_materials |-> n, entries |-> es, job |-> NoLoadJob,
                 hit |-> 0, lookup |-> "none"] :
                  n \in 0 .. MaxMaterials, es \in ObjectLists }

\* load_scene(cfg) returns Ok(job)
LoadMaterials ==
    /\ tr.pc = "start"
    /\ tr' = [tr EXCEPT !.pc = "loaded", !.job = LoadJob(tr.num_materials, tr.entries)]
    /\ UNCHANGED << cfg, exit_req, tasks, image, writes, writer, oob, progress_total,
                    progress_poisoned, progress_log, total_stats, render_state, last >>

\* trace_ray or trace_ray_path hits the object i of the job
HitObject ==
    /\ tr.pc = "loaded"
    /\ \E i \in 1 .. Len(tr.job.objects) :
          tr' = [tr EXCEPT !.pc = "traced", !.hit = i,
                           !.lookup = MaterialLookup(tr.job, tr.job.objects[i])]
    /\ UNCHANGED << cfg, exit_req, tasks, image, writes, writer, oob, progress_total,
                    progress_poisoned, progress_log, total_stats, render_state, last >>

NextMaterial == LoadMaterials \/ HitObject

SpecMaterial == InitMaterial /\ [][NextMaterial]_vars

\* C30: for every scene that load_scene accepts the material index of every
\* plane, sphere, triangle and mesh is smaller than the number of loaded
\* materials, so the lookup self.materials[hit_mat_id] is never out of bounds
C30_MaterialIndexInRange ==
    /\ tr.pc # "start" =>
           \A i \in 1 .. Len(tr.job.objects) :
               get_material_id(tr.job.objects[i]) < tr.job.num_materials
    /\ tr.lookup # "panic"

(***************************************************************************)
(* The construction of the octree of a mesh, one call of setup_node per    *)
(* step: load_mesh numbers the triangles of a model, init_aabb finds the   *)
(* bounds and calls setup_node on the root, and a node that is split calls *)
(* setup_node on its eight octants in turn.  calls holds the calls still   *)
(* to be made (the next one first), nodes the nodes that are set up.       *)
(***************************************************************************)
\* the faces a model is made of: two triangles in space, two triangles of
\* the plane z = 0 that share an edge, a face with two equal corners and a
\* triangle in the middle of the others
FacePool ==
    { << Vec(0, 0, 0), Vec(4, 0, 4), Vec(0, 4, 4) >>,
      << Vec(8, 8, 7), Vec(5, 8, 7), Vec(8, 5, 7) >>,
      << Vec(0, 0, 0), Vec(4, 0, 0), Vec(0, 4, 0) >>,
      << Vec(4, 4, 0), Vec(4, 0, 0), Vec(0, 4, 0) >>,
      << Vec(1, 1, 1), Vec(1, 1, 1), Vec(2, 2, 2) >>,
      << Vec(2, 2, 2), Vec(6, 2, 2), Vec(2, 6, 6) >> }

MaxFaces == 3

OctreeFaces == UNION { [1 .. n -> FacePool] : n \in 0 .. MaxFaces }

\* a call of setup_node(p_min, p_max, triangles, depth) on the node at path
SetupCall(path, self, triangles, depth) ==
    [path |-> path, box |-> self, triangles |-> triangles, depth |-> depth]

\* a leaf test that looks at the depth only
LeafTestByDepth(depth, n) == depth >= MAX_DEPTH

\* if depth >= MAX_DEPTH || v_triangles.len() < MAX_NUM_TRIANGLES
LeafTest(depth, n) == depth >= MAX_DEPTH \/ n < MAX_NUM_TRIANGLES

\* the filter at the head of setup_node
Filtered(root, call) ==
    IF Len(call.triangles) = 0 THEN RootInside(root, call.box)
    ELSE InsideOf(root, call.box, call.triangles)

\* assert!(inc.x != 0.0 && inc.y != 0.0 && inc.z != 0.0)
IncNonZero(self) ==
    self.hi.x # self.lo.x /\ self.hi.y # self.lo.y /\ self.hi.z # self.lo.z

\* the node a call leaves behind: its box, what it was handed, what the
\* filter kept, and self.triangles (set in a leaf only)
SetupResult(call, v_triangles, is_leaf) ==
    [path |-> call.path, box |-> call.box, depth |-> call.depth,
     from_root |-> Len(call.triangles) = 0, handed |-> call.triangles,
     v_triangles |-> v_triangles, is_leaf |-> is_leaf,
     triangles |-> IF is_leaf THEN v_triangles ELSE << >>]

\* for i in 0..8 { aabb.setup_node(v_min[i], v_max[i], &v_triangles, depth + 1) }
ChildCalls(call, v_triangles) ==
    [i \in 1 .. 8 |-> SetupCall(Append(call.path, i - 1), Octant(call.box, i - 1),
                                v_triangles, call.depth + 1)]

\* load_mesh and Mesh::new up to the call of setup_node on the root
MeshLoaded(s, root) ==
    [s EXCEPT !.pc = "setup", !.step = 1, !.root = root,
              !.calls = << SetupCall(<< >>, find_bounds(root), << >>, 0) >>]

\* setup_node up to its return (a leaf), to its assertion, or to the calls
\* on its octants
SetupStep(s, call, v_triangles) ==
    IF LeafTest(call.depth, Len(v_triangles))
    THEN [s EXCEPT !.pc = IF Len(s.calls) = 1 THEN "built" ELSE "setup",
                   !.step = @ + 1,
                   !.calls = Tail(s.calls),
                   !.nodes = @ \cup {SetupResult(call, v_triangles, TRUE)}]
    ELSE IF ~IncNonZero(call.box)
    THEN [s EXCEPT !.pc = "panic", !.step = @ + 1]
    ELSE [s EXCEPT !.step = @ + 1,
                   !.calls = ChildCalls(call, v_triangles) \o Tail(s.calls),
                   !.nodes = @ \cup {SetupResult(call, v_triangles, FALSE)}]

\* the states the construction goes through from s on, s first
RECURSIVE BuildFrom(_)
BuildFrom(s) ==
    IF s.pc = "start"
    THEN << s >> \o BuildFrom(MeshLoaded(s, load_triangles(s.faces, 1, 0, << >>)))
    ELSE IF s.pc = "setup"
    THEN << s >> \o BuildFrom(SetupStep(s, Head(s.calls), Filtered(s.root, Head(s.calls))))
    ELSE << s >>

NoMesh(f) == [pc |-> "start", step |-> 0, faces |-> f, root |-> << >>, calls |-> << >>, nodes |-> {}]

\* the construction of every model of OctreeFaces
Builds == { BuildFrom(NoMesh(f)) : f \in OctreeFaces }

InitOctree ==
    /\ InitJob(Cfg(2, 3, FALSE, 1))
    /\ tr \in { NoMesh(f) : f \in OctreeFaces }

\* load_mesh: the triangles of the model, Mesh::new, init_aabb's find_bounds
LoadMesh ==
    /\ tr.pc = "start"
    /\ \E build \in Builds : build[1] = tr /\ tr' = build[2]
    /\ UNCHANGED << cfg, exit_req, tasks, image, writes, writer, oob, progress_total,
                    progress_poisoned, progress_log, total_stats, render_state, last >>

\* the next call of setup_node
SetupNode ==
    /\ tr.pc = "setup"
    /\ \E build \in Builds : build[1].faces = tr.faces /\ tr' = build[tr.step + 2]
    /\ UNCHANGED << cfg, exit_req, tasks, image, writes, writer, oob, progress_total,
                    progress_poisoned, progress_log, total_stats, render_state, last >>

NextOctree == LoadMesh \/ SetupNode

SpecOctree == InitOctree /\ [][NextOctree]_vars

\* the calls are made one after the other by the thread that loads the scene
SpecOctreeFair == SpecOctree /\ WF_vars(NextOctree)

IsPrefix(a, b) == Len(a) <= Len(b) /\ SubSeq(b, 1, Len(a)) = a

Parent(n) == CHOOSE a \in tr.nodes : a.path = SubSeq(n.path, 1, Len(n.path) - 1)

C27_Nodes ==
    /\ \A n \in tr.nodes :
          /\ n.is_leaf <=> (n.depth >= MAX_DEPTH \/ Len(n.v_triangles) < MAX_NUM_TRIANGLES)
          /\ n.depth <= MAX_DEPTH
          /\ ~n.is_leaf => Len(n.v_triangles) >= MAX_NUM_TRIANGLES
    /\ \A i \in 1 .. Len(tr.calls) : tr.calls[i].depth <= MAX_DEPTH

C27_ConstructionEnds == []C27_Nodes /\ <>(tr.pc \in {"built", "panic"})

\* a model that was split and is built
C27_Witness ==
    /\ tr.pc = "built"
    /\ \E n \in tr.nodes : ~n.is_leaf
    /\ \E n \in tr.nodes : n.is_leaf /\ n.depth = MAX_DEPTH /\ Len(n.v_triangles) >= MAX_NUM_TRIANGLES

Bit(i, k) == (i \div (2 ^ k)) % 2

Children(n) == { c \in tr.nodes : Len(c.path) = Len(n.path) + 1 /\ IsPrefix(n.path, c.path) }

Axes == {"x", "y", "z"}

AxisBit(ax) == IF ax = "x" THEN 0 ELSE IF ax = "y" THEN 1 ELSE 2

\* child c is the octant of n that its last path entry selects: on every
\* axis the lower or the upper half of n's extent
IsOctantOf(c, n) ==
    \A ax \in Axes :
       /\ 2 * n.box.den * c.box.lo[ax]
             = c.box.den * (2 * n.box.lo[ax]
                              + Bit(c.path[Len(c.path)], AxisBit(ax))
                                   * (n.box.hi[ax] - n.box.lo[ax]))
       /\ 2 * n.box.den * (c.box.hi[ax] - c.box.lo[ax])
             = c.box.den * (n.box.hi[ax] - n.box.lo[ax])

\* C28: once the tree is built every inner node has exactly 8 children,
\* child i is the octant selected by bit 0 (+x), bit 1 (+y), bit 2 (+z) of
\* i, so the children are of equal size, cover the parent and overlap on
\* shared faces only; and every node has p_min <= p_max on each axis.
C28_Octants ==
    /\ \A n \in tr.nodes : \A ax \in Axes : n.box.lo[ax] <= n.box.hi[ax]
    /\ tr.pc = "built" =>
          \A n \in tr.nodes :
             ~n.is_leaf =>
                /\ Cardinality(Children(n)) = 8
                /\ { c.path[Len(c.path)] : c \in Children(n) } = 0 .. 7
                /\ \A c \in Children(n) : IsOctantOf(c, n)

C28_Witness ==
    /\ tr.pc = "built"
    /\ \E n \in tr.nodes : ~n.is_leaf /\ Cardinality(Children(n)) = 8

\* C29, as stated: setup_node never reaches its assertion on inc with a
\* half-extent of zero, whatever triangles with three different corners
\* the mesh is made of.
C29_NoZeroExtent == tr.pc # "panic"

(***************************************************************************)
(* The walk of AABB::intercept over the children of the root of a mesh,    *)
(* one round of its loop per step: the child close_idx is visited, then    *)
(* the three mid-planes are tested for the next crossing.                  *)
(***************************************************************************)
WalkOrigins ==
    {Vec(-1, -1, -1), Vec(1, 1, -2), Vec(-2, 1, 1), Vec(9, 9, 9), Vec(7, 7, 10),
     Vec(3, -1, 5)}

WalkDirs ==
    {Vec(1, 1, 1), Vec(4, 2, 1), Vec(1, 2, 4), Vec(2, 1, 4), Vec(0, 0, 1), Vec(1, 0, 0),
     Vec(1, 1, 2), Vec(-1, -1, -2), Vec(-4, -2, -1), Vec(-1, -1, -1)}

WalkRays == { Ray(o, 1, d, 1) : o \in WalkOrigins, d \in WalkDirs }

\* the meshes whose root was split
WalkMeshes == { m \in 1 .. Len(Meshes) : ~Meshes[m].aabb.is_leaf /\ ~Meshes[m].aabb.failed }

NoWalk(m, ray) ==
    [pc |-> "enter", mesh |-> m, ray |-> ray, tmax |-> FloatMax, oid |-> 0,
     t_aabb |-> FZero, close_idx |-> 0, tmin0 |-> EPSILON, visited |-> << >>, k |-> 0]

InitWalk ==
    /\ InitJob(Cfg(2, 3, FALSE, 1))
    /\ tr \in { NoWalk(m, ray) : m \in WalkMeshes, ray \in WalkRays }

\* AABB::intercept on the root up to the first round: the slab test, the
\* test against tmin, nearest_node
Entered(s, self, ci) ==
    IF ~ci.ok \/ FLt(ci.t, EPSILON) THEN [s EXCEPT !.pc = "miss"]
    ELSE [s EXCEPT !.pc = "walk", !.t_aabb = ci.t,
                   !.close_idx = nearest_node(self, PointAt(s.ray, ci.t))]

EnterNode ==
    /\ tr.pc = "enter"
    /\ tr' = Entered(tr, Meshes[tr.mesh].aabb,
                     check_intersect(Meshes[tr.mesh].aabb, tr.ray, tr.tmax))
    /\ UNCHANGED << cfg, exit_req, tasks, image, writes, writer, oob, progress_total,
                    progress_poisoned, progress_log, total_stats, render_state, last >>

\* the end of a round: break, the assertion on visited, or the next child;
\* after the fourth round the loop is over
RoundEnd(s, visited, r, pos, t_next) ==
    IF pos = 3 THEN [s EXCEPT !.pc = "break", !.visited = visited, !.tmax = r.tmax]
    ELSE IF \E j \in 1 .. Len(visited) : visited[j] = FlipBit(s.close_idx, pos)
    THEN [s EXCEPT !.pc = "panic", !.visited = visited]
    ELSE [s EXCEPT !.pc = IF s.k = 3 THEN "over" ELSE "walk",
                   !.visited = visited, !.tmax = r.tmax, !.tmin0 = t_next,
                   !.close_idx = FlipBit(s.close_idx, pos), !.k = @ + 1]

\* the mid-plane tests of a round
RoundPlanes(s, self, visited, r, p_yz, p_xz, p_xy) ==
    RoundEnd(s, visited, r,
             FirstPlane(p_yz, p_xz, p_xy, Beyond(p_yz.t, s.t_aabb),
                        Beyond(p_xz.t, s.t_aabb), Beyond(p_xy.t, s.t_aabb), s.t_aabb),
             RMin(RMin(Beyond(p_yz.t, s.t_aabb), Beyond(p_xy.t, s.t_aabb)),
                  Beyond(p_xz.t, s.t_aabb)))

\* one round: r is what the child close_idx answered
Round(s, self, visited, r) ==
    IF r.panic THEN [s EXCEPT !.pc = "panic", !.visited = visited]
    ELSE IF r.hit
    THEN [s EXCEPT !.pc = "hit", !.visited = visited, !.tmax = r.tmax, !.oid = r.oid]
    ELSE RoundPlanes(s, self, visited, r, MidPlane(self, s.ray, "x", s.tmin0),
                     MidPlane(self, s.ray, "y", s.tmin0),
                     MidPlane(self, s.ray, "z", s.tmin0))

WalkRound ==
    /\ tr.pc = "walk"
    /\ tr' = Round(tr, Meshes[tr.mesh].aabb, Append(tr.visited, tr.close_idx),
                   AABBIntercept(Meshes[tr.mesh].triangles,
                                 Meshes[tr.mesh].aabb.aabbs[tr.close_idx + 1], ZeroStats,
                                 tr.ray, EPSILON, tr.tmax, FALSE, tr.oid))
    /\ UNCHANGED << cfg, exit_req, tasks, image, writes, writer, oob, progress_total,
                    progress_poisoned, progress_log, total_stats, render_state, last >>

NextWalk == EnterNode \/ WalkRound

SpecWalk == InitWalk /\ [][NextWalk]_vars

\* the ray crosses the mid-plane of the axis ax at a parameter beyond t
CrossesBeyond(self, ray, ax, t) ==
    /\ ray.dir[ax] # 0
    /\ RLt(t, Rat(((self.lo[ax] + self.hi[ax]) * ray.od - ray.orig[ax] * 2 * self.den)
                     * ray.dd,
                  2 * self.den * ray.od * ray.dir[ax]))

CrossingAhead(s) ==
    \E ax \in {"x", "y", "z"} : CrossesBeyond(Meshes[s.mesh].aabb, s.ray, ax, s.tmin0)

NoRepeat(visited) ==
    \A i, j \in 1 .. Len(visited) : i # j => visited[i] # visited[j]

\* C25: a walk visits at most four children and none of them twice (the
\* assertion on visited never fails), and a round after which no mid-plane
\* is crossed beyond the last crossing taken is the last one.
C25_VisitsBounded ==
    /\ tr.pc # "panic"
    /\ Len(tr.visited) <= 4
    /\ NoRepeat(tr.visited)

C25_WalkEnds ==
    /\ []C25_VisitsBounded
    /\ [][(tr.pc = "walk" /\ ~CrossingAhead(tr)) => tr'.pc \in {"hit", "break"}]_vars

\* a walk through four children, and one that broke off after the first
C25_Witness ==
    /\ tr.pc \in {"over", "break"}
    /\ Len(tr.visited) = 4

(***************************************************************************)
(* The settings panel of the viewer.  RaymaxApp::update runs once per      *)
(* frame and passes the widgets from top to bottom; a frame carries at     *)
(* most one event of the pointer.  The render thread is seen only through  *)
(* the RenderConfig it was started with and the assertions of              *)
(* calc_ray_box_path on it.                                                *)
(***************************************************************************)
\* vec_str: "cornell-box" is scene 0
NumScenes == 8

\* the values the "Iterations" slider (2..=4096) is moved to
IterationValues == {2, 3, 4096}

\* impl Default for RaymaxApp, and the two flags of the render thread
DefaultApp ==
    [scene_choice |-> 0, use_antialias |-> FALSE, use_gamma |-> TRUE,
     do_path_tracing |-> TRUE, path_level |-> 200, rendering_active |-> FALSE,
     rendering_needs_stop |-> FALSE]

NoRender == [path_tracing |-> 0, use_gamma |-> FALSE, use_adaptive_sampling |-> FALSE]

\* the events of one frame: none, a click on a scene of the combo box, on
\* one of the three checkboxes or on the button, or a move of the slider
FrameEvents ==
    { [kind |-> k, arg |-> 0] : k \in {"none", "path", "gamma", "antialias", "button"} }
    \cup { [kind |-> "scene", arg |-> i] : i \in 0 .. NumScenes - 1 }
    \cup { [kind |-> "iterations", arg |-> v] : v \in IterationValues }

\* selectable_value(..).clicked(): scene_choice, do_path_tracing = i == 0,
\* use_gamma = i == 0
PickScene(app, ev) ==
    IF ev.kind = "scene"
    THEN [app EXCEPT !.scene_choice = ev.arg, !.do_path_tracing = (ev.arg = 0),
                     !.use_gamma = (ev.arg = 0)]
    ELSE app

\* ui.checkbox(&mut self.do_path_tracing, "use path-tracing")
CheckPathTracing(app, ev) ==
    IF ev.kind = "path" THEN [app EXCEPT !.do_path_tracing = ~@] ELSE app

\* if !self.do_path_tracing { self.path_level = 1; self.use_antialias = false; }
ResetWhitted(app) ==
    IF ~app.do_path_tracing THEN [app EXCEPT !.path_level = 1, !.use_antialias = FALSE]
    ELSE app

\* the slider of path_level, enabled with do_path_tracing; clamps says
\* whether the widget writes a value outside 2..=4096 back into its range
SlideIterations(app, ev, clamps) ==
    IF ev.kind = "iterations" /\ app.do_path_tracing THEN [app EXCEPT !.path_level = ev.arg]
    ELSE IF clamps /\ app.path_level < 2 THEN [app EXCEPT !.path_level = 2]
    ELSE app

\* ui.checkbox(&mut self.use_gamma, "gamma correction")
CheckGamma(app, ev) ==
    IF ev.kind = "gamma" THEN [app EXCEPT !.use_gamma = ~@] ELSE app

\* the checkbox of use_antialias, enabled with !do_path_tracing
CheckAntialias(app, ev) ==
    IF ev.kind = "antialias" /\ ~app.do_path_tracing THEN [app EXCEPT !.use_antialias = ~@]
    ELSE app

\* the settings after the widgets of one frame, above the button
Widgets(app, ev, clamps) ==
    CheckAntialias(CheckGamma(SlideIterations(ResetWhitted(CheckPathTracing(PickScene(app, ev),
                                                                           ev)),
                                              ev, clamps),
                              ev),
                   ev)

\* start_async: the RenderConfig of the render thread
StartConfig(app) ==
    [path_tracing |-> app.path_level, use_gamma |-> app.use_gamma,
     use_adaptive_sampling |-> app.use_antialias]

\* the button: stop_async while rendering_active, else start_async
ClickButton(s, app) ==
    IF app.rendering_active
    THEN [s EXCEPT !.app = [app EXCEPT !.rendering_needs_stop = TRUE]]
    ELSE [s EXCEPT !.app = [app EXCEPT !.rendering_active = TRUE],
                   !.render = StartConfig(app), !.starts = Min(@ + 1, 2)]

\* render_pixel_box on the first pixel: calc_ray_box_path is called when
\* path_tracing > 1 and asserts !use_adaptive_sampling
AssertsHold(config) == ~(config.path_tracing > 1) \/ ~config.use_adaptive_sampling

InitViewer ==
    /\ InitJob(Cfg(2, 3, FALSE, 1))
    /\ tr = [app |-> DefaultApp, render |-> NoRender, starts |-> 0, panic |-> FALSE]

\* RaymaxApp::update
UpdateFrame(s, ev, app) ==
    IF ev.kind = "button" THEN ClickButton(s, app) ELSE [s EXCEPT !.app = app]

Update ==
    /\ \E ev \in FrameEvents, clamps \in BOOLEAN :
          tr' = UpdateFrame(tr, ev, Widgets(tr.app, ev, clamps))
    /\ UNCHANGED << cfg, exit_req, tasks, image, writes, writer, oob, progress_total,
                    progress_poisoned, progress_log, total_stats, render_state, last >>

\* start_rendering: render_scene and what follows it, or the panic of a
\* worker on the first pixel
Rendered(s) ==
    IF ~AssertsHold(s.render) THEN [s EXCEPT !.panic = TRUE]
    ELSE [s EXCEPT !.render = NoRender,
                   !.app = [@ EXCEPT !.rendering_active = FALSE,
                                     !.rendering_needs_stop = FALSE]]

StartRendering ==
    /\ tr.render # NoRender
    /\ ~tr.panic
    /\ tr' = Rendered(tr)
    /\ UNCHANGED << cfg, exit_req, tasks, image, writes, writer, oob, progress_total,
                    progress_poisoned, progress_log, total_stats, render_state, last >>

NextViewer == Update \/ StartRendering

SpecViewer == InitViewer /\ [][NextViewer]_vars

\* C24, as stated: whatever the events were, a render started with
\* path_tracing >= 2 has use_adaptive_sampling = false, and the assertions
\* of calc_ray_box_path hold.
C24_PathTracingNotAdaptive ==
    /\ tr.render.path_tracing >= 2 => ~tr.render.use_adaptive_sampling
    /\ ~tr.panic

(***************************************************************************)
(* The two flags shared by the UI thread and the render threads of the     *)
(* viewer, one atomic load or store per step: the button handler of        *)
(* update loads rendering_active and then calls stop_async or start_async; *)
(* start_rendering ends with two stores.                                   *)
(***************************************************************************)
\* the render threads a run of the viewer starts
MaxRenders == 3

\* where a render thread is: not spawned, in start_rendering up to
\* save_image, between its two stores, returned
NotSpawned(r) == [pc |-> "unborn", stop_at_start |-> FALSE, stopped_for |-> 0]

InitStop ==
    /\ InitJob(Cfg(2, 3, FALSE, 1))
    /\ tr = [rendering_active |-> FALSE, rendering_needs_stop |-> FALSE, ui |-> "idle",
             renders |-> [r \in 1 .. MaxRenders |-> NotSpawned(r)], spawned |-> 0,
             target |-> 0, stop_for |-> 0]

\* update: .clicked(), then if self.rendering_active.load(Ordering::SeqCst);
\* target is the render the click is meant for, the last one spawned
ButtonLoad ==
    /\ tr.ui = "idle"
    /\ tr.rendering_active \/ tr.spawned < MaxRenders
    /\ tr' = [tr EXCEPT !.ui = IF tr.rendering_active THEN "stop_async" ELSE "start_async",
                        !.target = tr.spawned]
    /\ UNCHANGED << cfg, exit_req, tasks, image, writes, writer, oob, progress_total,
                    progress_poisoned, progress_log, total_stats, render_state, last >>

\* stop_async: self.rendering_needs_stop.store(true, Ordering::SeqCst)
stop_async ==
    /\ tr.ui = "stop_async"
    /\ tr' = [tr EXCEPT !.ui = "idle", !.rendering_needs_stop = TRUE,
                        !.stop_for = tr.target]
    /\ UNCHANGED << cfg, exit_req, tasks, image, writes, writer, oob, progress_total,
                    progress_poisoned, progress_log, total_stats, render_state, last >>

\* start_async: self.rendering_active.store(true, ..), thread::spawn; the
\* new thread hands rendering_needs_stop to render_scene as it is
start_async ==
    /\ tr.ui = "start_async"
    /\ tr' = [tr EXCEPT !.ui = "idle", !.rendering_active = TRUE,
                        !.spawned = @ + 1,
                        !.renders[tr.spawned + 1] =
                            [pc |-> "rendering", stop_at_start |-> tr.rendering_needs_stop,
                             stopped_for |-> 0]]
    /\ UNCHANGED << cfg, exit_req, tasks, image, writes, writer, oob, progress_total,
                    progress_poisoned, progress_log, total_stats, render_state, last >>

\* render_scene: a task loads exit_req and, when it is set, leaves its tile
\* out; stopped_for is the render the request was made for
TaskLoadsExit ==
    /\ \E r \in 1 .. MaxRenders :
          /\ tr.renders[r].pc = "rendering"
          /\ tr.rendering_needs_stop
          /\ tr.renders[r].stopped_for = 0
          /\ tr' = [tr EXCEPT !.renders[r].stopped_for = tr.stop_for]
    /\ UNCHANGED << cfg, exit_req, tasks, image, writes, writer, oob, progress_total,
                    progress_poisoned, progress_log, total_stats, render_state, last >>

\* start_rendering: render_scene .. save_image, then
\* rendering_active.store(false, Ordering::SeqCst)
StoreActive ==
    /\ \E r \in 1 .. MaxRenders :
          /\ tr.renders[r].pc = "rendering"
          /\ tr' = [tr EXCEPT !.renders[r].pc = "stored_active",
                              !.rendering_active = FALSE]
    /\ UNCHANGED << cfg, exit_req, tasks, image, writes, writer, oob, progress_total,
                    progress_poisoned, progress_log, total_stats, render_state, last >>

\* start_rendering: rendering_needs_stop.store(false, Ordering::SeqCst)
StoreNeedsStop ==
    /\ \E r \in 1 .. MaxRenders :
          /\ tr.renders[r].pc = "stored_active"
          /\ tr' = [tr EXCEPT !.renders[r].pc = "returned",
                              !.rendering_needs_stop = FALSE]
    /\ UNCHANGED << cfg, exit_req, tasks, image, writes, writer, oob, progress_total,
                    progress_poisoned, progress_log, total_stats, render_state, last >>

NextStop ==
    ButtonLoad \/ stop_async \/ start_async \/ TaskLoadsExit \/ StoreActive \/ StoreNeedsStop

SpecStop == InitStop /\ [][NextStop]_vars

\* C22, as stated: rendering_needs_stop is false whenever a new render is
\* started, and no render leaves out tiles for a stop request that was
\* made for another render.
C22_NoStaleStop ==
    \A r \in 1 .. MaxRenders :
       /\ ~tr.renders[r].stop_at_start
       /\ tr.renders[r].stopped_for \in {0, r}

(***************************************************************************)
(* The mutexes of a render started from the viewer: the tasks of           *)
(* render_image_box, the render thread in start_rendering and the UI       *)
(* thread in update.  A thread is a script of lock and unlock steps, in    *)
(* the order in which the code takes and drops its guards.                 *)
(***************************************************************************)
\* the tiles of the render
NumTiles == 2

RenderThread == NumTiles + 1

UiThread == NumTiles + 2

Threads == 1 .. UiThread

Mutexes == {"image", "img_buffer2", "progress_total", "total_stats", "progress"}

Lock(m) == [op |-> "lock", m |-> m]

Unlock(m) == [op |-> "unlock", m |-> m]

\* self.image.lock().unwrap().push_pixel(x, y, c), and in push_pixel
\* self.img_buffer2.lock().unwrap().pixels[..] = ..
push_pixel == << Lock("image"), Lock("img_buffer2"), Unlock("img_buffer2"), Unlock("image") >>

\* update_func: *progress.lock().unwrap() = ..; the guard of img is held
\* over texture_handle.set
update_func == << Lock("progress"), Unlock("progress"), Lock("img_buffer2"), Unlock("img_buffer2") >>

\* report_progress: the guard of progress_total lives to the end of the
\* function, over the call of progress_func when d holds
LockedReport(d) ==
    << Lock("progress_total") >> \o (IF d THEN update_func ELSE << >>)
       \o << Unlock("progress_total") >>

\* the closure of render_image_box for one tile: skip is what the load of
\* exit_req gave, asserts whether the assertions of calc_ray_box_path hold
TileScript(skip, asserts, d) ==
    IF skip THEN LockedReport(d)
    ELSE IF ~asserts THEN << [op |-> "panic", m |-> "image"] >>
    ELSE push_pixel \o LockedReport(d) \o << Lock("total_stats"), Unlock("total_stats") >>

\* start_rendering after render_scene: update_func(1.0), save_image
AfterRender == update_func \o << Lock("image"), Unlock("image") >>

\* the configurations start_async hands to the render thread
LockConfigs ==
    { [path_tracing |-> p, use_gamma |-> TRUE, use_adaptive_sampling |-> a] :
         p \in {1, 2}, a \in BOOLEAN }

InitLocks ==
    /\ InitJob(Cfg(2, 3, FALSE, 1))
    /\ tr \in { [conf |-> c, exit_req |-> FALSE, owner |-> [m \in Mutexes |-> 0],
                  script |-> [t \in Threads |->
                                IF t = RenderThread
                                THEN << Lock("image"), Unlock("image") >> ELSE << >>],
                  pc |-> [t \in Threads |->
                            IF t = RenderThread THEN "start" ELSE "idle"]] :
                  c \in LockConfigs }

\* Mutex::lock, when the mutex is free
Acquire(t) ==
    /\ tr.script[t] # << >>
    /\ Head(tr.script[t]).op = "lock"
    /\ tr.owner[Head(tr.script[t]).m] = 0
    /\ tr' = [tr EXCEPT !.owner[Head(tr.script[t]).m] = t, !.script[t] = Tail(@)]
    /\ UNCHANGED << cfg, exit_req, tasks, image, writes, writer, oob, progress_total,
                    progress_poisoned, progress_log, total_stats, render_state, last >>

\* the drop of a guard
Release(t) ==
    /\ tr.script[t] # << >>
    /\ Head(tr.script[t]).op = "unlock"
    /\ tr' = [tr EXCEPT !.owner[Head(tr.script[t]).m] = 0, !.script[t] = Tail(@)]
    /\ UNCHANGED << cfg, exit_req, tasks, image, writes, writer, oob, progress_total,
                    progress_poisoned, progress_log, total_stats, render_state, last >>

\* render_scene: the tiles are handed to the pool
SpawnTiles ==
    /\ tr.pc[RenderThread] = "start"
    /\ tr.script[RenderThread] = << >>
    /\ tr' = [tr EXCEPT !.pc = [t \in Threads |->
                                  IF t = RenderThread THEN "render_scene"
                                  ELSE IF t = UiThread THEN @[t] ELSE "ready"]]
    /\ UNCHANGED << cfg, exit_req, tasks, image, writes, writer, oob, progress_total,
                    progress_poisoned, progress_log, total_stats, render_state, last >>

\* the closure of a tile starts: exit_req.load; whether its report calls
\* progress_func depends on the resolution, both cases are kept
TileStart(t) ==
    /\ t \in 1 .. NumTiles
    /\ tr.pc[t] = "ready"
    /\ \E d \in BOOLEAN :
          tr' = [tr EXCEPT !.pc[t] = "running",
                           !.script[t] = TileScript(tr.exit_req, AssertsHold(tr.conf), d)]
    /\ UNCHANGED << cfg, exit_req, tasks, image, writes, writer, oob, progress_total,
                    progress_poisoned, progress_log, total_stats, render_state, last >>

\* a failed assertion of calc_ray_box_path unwinds the closure
TilePanics(t) ==
    /\ tr.script[t] # << >>
    /\ Head(tr.script[t]).op = "panic"
    /\ tr' = [tr EXCEPT !.pc[t] = "panicked", !.script[t] = << >>]
    /\ UNCHANGED << cfg, exit_req, tasks, image, writes, writer, oob, progress_total,
                    progress_poisoned, progress_log, total_stats, render_state, last >>

\* the closure of a tile returns
TileEnds(t) ==
    /\ t \in 1 .. NumTiles
    /\ tr.pc[t] = "running"
    /\ tr.script[t] = << >>
    /\ tr' = [tr EXCEPT !.pc[t] = "done"]
    /\ UNCHANGED << cfg, exit_req, tasks, image, writes, writer, oob, progress_total,
                    progress_poisoned, progress_log, total_stats, render_state, last >>

\* for_each is over: render_scene returns, or resumes the panic of a tile
\* in the render thread
JoinTiles ==
    /\ tr.pc[RenderThread] = "render_scene"
    /\ \A t \in 1 .. NumTiles : tr.pc[t] \in {"done", "panicked"}
    /\ tr' = IF \E t \in 1 .. NumTiles : tr.pc[t] = "panicked"
             THEN [tr EXCEPT !.pc[RenderThread] = "panicked"]
             ELSE [tr EXCEPT !.pc[RenderThread] = "returned",
                             !.script[RenderThread] = AfterRender]
    /\ UNCHANGED << cfg, exit_req, tasks, image, writes, writer, oob, progress_total,
                    progress_poisoned, progress_log, total_stats, render_state, last >>

\* start_rendering: the two stores at its end
StartRenderingEnds ==
    /\ tr.pc[RenderThread] = "returned"
    /\ tr.script[RenderThread] = << >>
    /\ tr' = [tr EXCEPT !.pc[RenderThread] = "ended", !.exit_req = FALSE]
    /\ UNCHANGED << cfg, exit_req, tasks, image, writes, writer, oob, progress_total,
                    progress_poisoned, progress_log, total_stats, render_state, last >>

\* update: let v = *self.progress.lock().unwrap()
UiFrame ==
    /\ tr.script[UiThread] = << >>
    /\ tr' = [tr EXCEPT !.script[UiThread] = << Lock("progress"), Unlock("progress") >>]
    /\ UNCHANGED << cfg, exit_req, tasks, image, writes, writer, oob, progress_total,
                    progress_poisoned, progress_log, total_stats, render_state, last >>

\* update: a click on Stop
UiStop ==
    /\ tr.script[UiThread] = << >>
    /\ tr.pc[RenderThread] \in {"start", "render_scene", "returned"}
    /\ ~tr.exit_req
    /\ tr' = [tr EXCEPT !.exit_req = TRUE]
    /\ UNCHANGED << cfg, exit_req, tasks, image, writes, writer, oob, progress_total,
                    progress_poisoned, progress_log, total_stats, render_state, last >>

ThreadStep(t) == Acquire(t) \/ Release(t) \/ TileStart(t) \/ TilePanics(t) \/ TileEnds(t)

NextLocks ==
    \/ \E t \in Threads : ThreadStep(t)
    \/ SpawnTiles
    \/ JoinTiles
    \/ StartRenderingEnds
    \/ UiFrame
    \/ UiStop

SpecLocks == InitLocks /\ [][NextLocks]_vars

\* every thread goes on running, and a thread that asks for a mutex that
\* is free again and again gets it
SpecLocksFair ==
    /\ SpecLocks
    /\ \A t \in Threads : SF_vars(ThreadStep(t))
    /\ WF_vars(SpawnTiles \/ JoinTiles \/ StartRenderingEnds)

\* t waits for a mutex that u holds
WaitsFor(t, u) ==
    /\ tr.script[t] # << >>
    /\ Head(tr.script[t]).op = "lock"
    /\ tr.owner[Head(tr.script[t]).m] = u

\* the threads t waits for, directly or through others
RECURSIVE WaitChain(_, _)
WaitChain(seen, n) ==
    IF n = 0 THEN seen
    ELSE WaitChain(seen \cup { u \in Threads : \E s \in seen : WaitsFor(s, u) }, n - 1)

NoWaitCycle ==
    \A t \in Threads :
       t \notin WaitChain({ u \in Threads : WaitsFor(t, u) }, UiThread)

\* C21, as stated: the acquisitions of the five mutexes never form a
\* cycle, every thread that asks for a mutex gets it, and render_scene
\* returns.
C21_NoDeadlock ==
    /\ []NoWaitCycle
    /\ \A t \in Threads :
          (tr.script[t] # << >> /\ Head(tr.script[t]).op = "lock") ~> (tr.script[t] = << >> \/ Head(tr.script[t]).op # "lock")
    /\ <>(tr.pc[RenderThread] \in {"returned", "ended"})

====
